---- MODULE Spec2Model ----
(***************************************************************************)
(* Label-keyed alignment and differential classification of parallel       *)
(* localization documents (pokemon-simple-chinese).                        *)
(*                                                                         *)
(* Strings are sequences of one-character tokens.  Korean syllables and    *)
(* Chinese characters are written as ASCII tokens:                         *)
(*   "gong" "gyeok" "teuk" "su"  : Korean syllables                        *)
(*   "zGong" "zJi" "zTe"         : simplified Chinese characters           *)
(*   "T1" "T2" / "S1" "S2"       : traditional / simplified character pairs*)
(*   "F0".."F9"                  : full-width digits U+FF10..U+FF19        *)
(*   "FA"                        : a full-width letter                     *)
(***************************************************************************)
EXTENDS Integers, Sequences, FiniteSets, TLC

VARIABLES
    t_in, t_out, t_k,       \* kor_min_translate: argument s, local out, loop position
    simp_doc, trad_doc,     \* bdsp process_common: the simp_chinese_* / trad_chinese_* files
    conv_fails,             \* the strings on which opencc_t2s.convert raises
    label_map, convert_t2s, \* process_common locals
    pc, idx,                \* position in process_common, labels of ko_arr done
    it_in, it_out,          \* the label `it` before / after its loop iteration
    summary,                \* process_common's summary counters
    si_fn,                  \* generate_si: "english" = replace_texts_by_trad,
                            \*              "korean" = replace_texts_by_trad_on_korean
    si_pc,                  \* position in that function
    name_in, result_name,   \* m_Name of the argument / of result
    trad_none, trad_len,    \* trad is None; len(trad_labels)
    si_idx,                 \* labels of the result done
    e_in, t_lab, e_out,     \* the result's label i before / trad_labels[i] / the label after
    d_a, d_b,               \* analyze_differences: chinese_data, korean_data
    d_stack,                \* pending calls of compare_structures: (data1, data2, path)
    differences,            \* the four counters
    d_leaf, d_prev,         \* the last leaf pair classified / the counters before it
    d_pc,                   \* position in analyze_differences
    d_args,                 \* the two arguments as they were when analyze_differences was called
    n_a, n_b, n_res, n_pc,  \* is_numeric_format_diff: val1, val2, returned value, position
    f_key, f_val, f_res, f_pc, \* is_likely_text_field: key, value, returned value, position
    h_fn, h_pc,             \* word entries as objects: the function that runs, its position
    heap, bags,             \* word entries by address; their nested values by address
    h_src, h_dst, h_out,    \* the donor's / the target's / the output's word list (addresses)
    h_conv, h_j,            \* convert_t2s; loop index
    h_src0, h_dst0,         \* the donor's and the target's contents at the call
    b_prog, b_files, b_i, b_pc, b_log, \* a batch loop: the program, its files, files done, position, outcome per file
    kx_trad,                \* bdsp process_korean_export on one file: the trad_chinese_* file
    kx_ko_list, kx_len,     \* ko_arr is a list; len(ko_arr)
    kx_map, kx_pc, kx_idx,  \* label_map; position; labels of ko_arr done
    kx_in, kx_out,          \* the label `it` before / after its loop iteration
    kx_summary, kx_prev,    \* the summary counters; the counters before the last step
    x_kind,                 \* build_label_map_from_msbt: what json_obj.get('labelDataArray') is
    x_doc, x_doc0,          \* json_obj; json_obj as it was at the call
    x_map, x_pc,            \* the returned map; position
    p_a, p_b,               \* compare_json_structures: file1_data, file2_data
    p_lines, p_pc,          \* the returned differences; position
    v_en, v_trad,           \* generate_si: the English template, the trad_chinese sibling
    v_si, v_report, v_pc    \* the generated document; verify's report; position

vars_terms == <<t_in, t_out, t_k>>
vars_common == <<simp_doc, trad_doc, conv_fails, label_map, convert_t2s, pc, idx,
                 it_in, it_out, summary>>
vars_si == <<si_fn, si_pc, name_in, result_name, trad_none, trad_len, si_idx,
             e_in, t_lab, e_out>>

vars_diff == <<d_a, d_b, d_stack, differences, d_leaf, d_prev, d_pc, d_args>>
vars_num == <<n_a, n_b, n_res, n_pc>>
vars_field == <<f_key, f_val, f_res, f_pc>>
vars_alias == <<h_fn, h_pc, heap, bags, h_src, h_dst, h_out, h_conv, h_j, h_src0, h_dst0>>
vars_batch == <<b_prog, b_files, b_i, b_pc, b_log>>
vars_kx == <<kx_trad, kx_ko_list, kx_len, kx_map, kx_pc, kx_idx, kx_in, kx_out, kx_summary, kx_prev>>
vars_index == <<x_kind, x_doc, x_doc0, x_map, x_pc>>
vars_presence == <<p_a, p_b, p_lines, p_pc>>
vars_verify == <<v_en, v_trad, v_si, v_report, v_pc>>

\* what each program leaves alone: the state of the other programs
not_terms == <<vars_common, vars_si, vars_diff, vars_num, vars_field, vars_alias,
        vars_batch, vars_kx, vars_index, vars_presence, vars_verify>>
not_common == <<vars_terms, vars_si, vars_diff, vars_num, vars_field, vars_alias,
        vars_batch, vars_kx, vars_index, vars_presence, vars_verify>>
not_si == <<vars_terms, vars_common, vars_diff, vars_num, vars_field, vars_alias,
        vars_batch, vars_kx, vars_index, vars_presence, vars_verify>>
not_diff == <<vars_terms, vars_common, vars_si, vars_num, vars_field, vars_alias,
        vars_batch, vars_kx, vars_index, vars_presence, vars_verify>>
not_num == <<vars_terms, vars_common, vars_si, vars_diff, vars_field, vars_alias,
        vars_batch, vars_kx, vars_index, vars_presence, vars_verify>>
not_field == <<vars_terms, vars_common, vars_si, vars_diff, vars_num, vars_alias,
        vars_batch, vars_kx, vars_index, vars_presence, vars_verify>>
not_alias == <<vars_terms, vars_common, vars_si, vars_diff, vars_num, vars_field,
        vars_batch, vars_kx, vars_index, vars_presence, vars_verify>>
not_batch == <<vars_terms, vars_common, vars_si, vars_diff, vars_num, vars_field,
        vars_alias, vars_kx, vars_index, vars_presence, vars_verify>>
not_kx == <<vars_terms, vars_common, vars_si, vars_diff, vars_num, vars_field, vars_alias,
        vars_batch, vars_index, vars_presence, vars_verify>>
not_index == <<vars_terms, vars_common, vars_si, vars_diff, vars_num, vars_field,
        vars_alias, vars_batch, vars_kx, vars_presence, vars_verify>>
not_presence == <<vars_terms, vars_common, vars_si, vars_diff, vars_num, vars_field,
        vars_alias, vars_batch, vars_kx, vars_index, vars_verify>>
not_verify == <<vars_terms, vars_common, vars_si, vars_diff, vars_num, vars_field,
        vars_alias, vars_batch, vars_kx, vars_index, vars_presence>>

vars == <<t_in, t_out, t_k, simp_doc, trad_doc, conv_fails, label_map, convert_t2s, pc,
          idx, it_in, it_out, summary, si_fn, si_pc, name_in, result_name, trad_none,
          trad_len, si_idx, e_in, t_lab, e_out, d_a, d_b, d_stack, differences, d_leaf,
          d_prev, d_pc, d_args, n_a, n_b, n_res, n_pc, f_key, f_val, f_res, f_pc, h_fn,
          h_pc, heap, bags, h_src, h_dst, h_out, h_conv, h_j, h_src0, h_dst0, b_prog,
          b_files, b_i, b_pc, b_log, kx_trad, kx_ko_list, kx_len, kx_map, kx_pc, kx_idx,
          kx_in, kx_out, kx_summary, kx_prev, x_kind, x_doc, x_doc0, x_map, x_pc, p_a,
          p_b, p_lines, p_pc, v_en, v_trad, v_si, v_report, v_pc>>

(***************************************************************************)
(* Bounds of the model                                                     *)
(***************************************************************************)
MaxTextLen == 4      \* longest text handed to kor_min_translate on its own
MaxWords == 2        \* longest wordDataArray of a label
MaxLabels == 2       \* most labels in a target labelDataArray
MaxDigitsLen == 2    \* longest string handed to is_numeric_format_diff on its own
MaxFiles == 2        \* most files in the directory a batch loop runs over
MaxIndexLabels == 3  \* most labels in a document handed to build_label_map_from_msbt on its own

(***************************************************************************)
(* Python string helpers                                                   *)
(***************************************************************************)
\* str.endswith
EndsWith(s, p) == Len(s) >= Len(p) /\ SubSeq(s, Len(s) - Len(p) + 1, Len(s)) = p

\* `p in s` for strings
Contains_(s, p) == \E i \in 0..(Len(s) - Len(p)) : SubSeq(s, i + 1, i + Len(p)) = p

\* str.startswith on token sequences
StartsWith(s, p) == Len(s) >= Len(p) /\ SubSeq(s, 1, Len(p)) = p

\* str.replace(old, new) for a non-empty old: every non-overlapping occurrence,
\* scanning from the left
RECURSIVE StrReplace(_, _, _)
StrReplace(s, old, new) ==
    IF Len(s) < Len(old) THEN s
    ELSE IF SubSeq(s, 1, Len(old)) = old
         THEN new \o StrReplace(SubSeq(s, Len(old) + 1, Len(s)), old, new)
         ELSE <<Head(s)>> \o StrReplace(Tail(s), old, new)

(***************************************************************************)
(* bdsp_translate.py: term table and term fallback                         *)
(***************************************************************************)
\* The entries of KOR_CN_TERMS over the syllables of the model, in table order:
\* ('HP','HP'), ('공격','攻击'), ('특수공격','特攻'), ('특공','特攻')
KOR_CN_TERMS ==
    << << <<"H", "P">>,                        <<"H", "P">> >>,
       << <<"gong", "gyeok">>,                 <<"zGong", "zJi">> >>,
       << <<"teuk", "su", "gong", "gyeok">>,   <<"zTe", "zGong">> >>,
       << <<"teuk", "gong">>,                  <<"zTe", "zGong">> >> >>

\* one iteration of the loop: out = out.replace(k, v)
TermStepOnInput(terms, s, out, n) == StrReplace(s, terms[n][1], terms[n][2])

\* line 102, for the table `terms`: out = out.replace(k, v)
TermStep(terms, s, out, n) == StrReplace(out, terms[n][1], terms[n][2])

RECURSIVE TermLoop(_, _, _, _)
TermLoop(terms, s, out, n) ==
    IF n > Len(terms) THEN out ELSE TermLoop(terms, s, TermStep(terms, s, out, n), n + 1)

kor_min_translate(s) == TermLoop(KOR_CN_TERMS, s, s, 1)

KoChars == {"gong", "gyeok", "teuk", "su", "H", "P"}

RECURSIVE StringsUpTo(_, _)
StringsUpTo(chars, n) ==
    IF n = 0 THEN {<<>>}
    ELSE LET shorter == StringsUpTo(chars, n - 1)
         IN shorter \cup {Append(s, c) : s \in {x \in shorter : Len(x) = n - 1}, c \in chars}

(***************************************************************************)
(* Document model: a word entry is a record; has = FALSE stands for an     *)
(* entry without a 'str' key.  strWidth and patternID are the layout       *)
(* metadata.  A label is [labelName, hasWords, words]; hasWords = FALSE    *)
(* stands for a label without a wordDataArray list.                        *)
(***************************************************************************)
Names == {"A", "B"}

Word(h, s, w, p) == [has |-> h, str |-> s, strWidth |-> w, patternID |-> p]

Label(n, hw, ws) == [labelName |-> n, hasWords |-> hw, words |-> ws]

Doc(ex, ha, ls) == [exists |-> ex, hasArr |-> ha, labels |-> ls]

\* the Korean target's word lists: every word of a "term" list holds a text a
\* term matches, of a "plain" list a text no term matches; a "mixed" list
\* starts with an entry without 'str'
KoWord(flavor, j) ==
    CASE flavor = "term"  -> Word(TRUE, <<"gong", "gyeok">>, 10 + j, 1)
      [] flavor = "plain" -> Word(TRUE, <<"su">>, 10 + j, 1)
      [] OTHER            -> IF j = 1 THEN Word(FALSE, <<>>, 10 + j, 1)
                                      ELSE Word(TRUE, <<"teuk", "gong">>, 10 + j, 1)

KoWordLists ==
    {[j \in 1..n |-> KoWord(f, j)] : n \in 0..MaxWords, f \in {"term", "plain", "mixed"}}

KoLabels ==
    {Label(n, TRUE, ws) : n \in Names, ws \in KoWordLists}
        \cup {Label(n, FALSE, <<>>) : n \in Names}

\* the Chinese donors' word lists: simplified texts in simp_chinese_*,
\* traditional texts in trad_chinese_*; the second entry has no 'str'
DonorWord(src, j) ==
    IF src = "simp"
    THEN (IF j = 2 THEN Word(FALSE, <<>>, 20 + j, 2) ELSE Word(TRUE, <<"S1", "S2">>, 20 + j, 2))
    ELSE (IF j = 2 THEN Word(TRUE, <<"T2">>, 30 + j, 3) ELSE Word(TRUE, <<"T1", "S2">>, 30 + j, 3))

DonorLabelChoices(src, n) ==
    {<<>>, <<Label(n, FALSE, <<>>)>>}
        \cup {<<Label(n, TRUE, [j \in 1..k |-> DonorWord(src, j)])>> : k \in 0..MaxWords}

DonorDocs(src) ==
    {Doc(FALSE, FALSE, <<>>), Doc(TRUE, FALSE, <<>>)}
        \cup {Doc(TRUE, TRUE, a \o b) :
                a \in DonorLabelChoices(src, "A"), b \in DonorLabelChoices(src, "B")}

(***************************************************************************)
(* bdsp_translate.py                                                       *)
(***************************************************************************)
EmptyMap == [n \in {} |-> <<>>]

\* labelName of a label without that key: it.get('labelName') is None
NoneName == "!None"

\* the loop of lines 84-88 with `if name not in out` added: the first label of a name wins
RECURSIVE BuildFromKeepFirst(_, _, _)
BuildFromKeepFirst(arr, k, out) ==
    IF k > Len(arr) THEN out
    ELSE LET it == arr[k]
         IN IF it.labelName # NoneName /\ it.hasWords /\ it.labelName \notin DOMAIN out
            THEN BuildFromKeepFirst(arr, k + 1,
                   [n \in (DOMAIN out) \cup {it.labelName} |->
                        IF n = it.labelName THEN it.words ELSE out[n]])
            ELSE BuildFromKeepFirst(arr, k + 1, out)

RECURSIVE BuildFrom(_, _, _)
BuildFrom(arr, k, out) ==
    IF k > Len(arr) THEN out
    ELSE LET it == arr[k]
         IN IF it.labelName # NoneName /\ it.hasWords
            THEN BuildFrom(arr, k + 1,
                   [n \in (DOMAIN out) \cup {it.labelName} |->
                        IF n = it.labelName THEN it.words ELSE out[n]])
            ELSE BuildFrom(arr, k + 1, out)

Raised == <<"!exception">>

\* lines 81-88 without the isinstance test: `for it in arr` raises on a non-list
build_label_map_from_msbtNoListTest(json_obj) ==
    IF ~json_obj.hasArr THEN Raised ELSE BuildFrom(json_obj.labels, 1, EmptyMap)

build_label_map_from_msbt(json_obj) ==
    IF ~json_obj.hasArr THEN EmptyMap ELSE BuildFrom(json_obj.labels, 1, EmptyMap)

\* what opencc_t2s.convert returns: traditional characters become simplified
ConvertChar(c) == CASE c = "T1" -> "S1" [] c = "T2" -> "S2" [] OTHER -> c

opencc_convert(s) ==
    IF s \in conv_fails THEN Raised ELSE [j \in 1..Len(s) |-> ConvertChar(s[j])]

t2s_strNoCatch(s) == opencc_convert(s)

t2s_str(s) == LET r == opencc_convert(s) IN IF r = Raised THEN s ELSE r

replace_worddata_strsKeepDst(dst_worddata, src_worddata, conv) ==
    [j \in 1..Len(dst_worddata) |->
        IF j <= Len(src_worddata) /\ src_worddata[j].has
        THEN [dst_worddata[j] EXCEPT !.has = TRUE,
                !.str = IF conv THEN t2s_str(src_worddata[j].str) ELSE src_worddata[j].str]
        ELSE dst_worddata[j]]

replace_worddata_strs(dst_worddata, src_worddata, conv) ==
    [j \in 1..Len(src_worddata) |->
        IF src_worddata[j].has
        THEN [src_worddata[j] EXCEPT !.str = IF conv THEN t2s_str(@) ELSE @]
        ELSE src_worddata[j]]

\* the fallback loop over the words of a label (lines 170-179)
FallbackWords(wd) ==
    [j \in 1..Len(wd) |->
        IF wd[j].has /\ kor_min_translate(wd[j].str) # wd[j].str
        THEN [wd[j] EXCEPT !.str = kor_min_translate(@)]
        ELSE wd[j]]

FallbackChanged(wd) ==
    \E j \in 1..Len(wd) : wd[j].has /\ kor_min_translate(wd[j].str) # wd[j].str

\* one iteration of `for it in ko_arr` (lines 162-181)
ResolveLabel(it, lmap, conv) ==
    IF it.labelName \in DOMAIN lmap
    THEN Label(it.labelName, TRUE, replace_worddata_strs(it.words, lmap[it.labelName], conv))
    ELSE IF it.hasWords THEN [it EXCEPT !.words = FallbackWords(@)] ELSE it

AnyRaised(lab) == \E j \in 1..Len(lab.words) : lab.words[j].has /\ lab.words[j].str = Raised

NoLabel == Label("", FALSE, <<>>)

CommonInit ==
    /\ simp_doc \in DonorDocs("simp")
    /\ trad_doc \in DonorDocs("trad")
    /\ conv_fails \in {{}, {<<"T1", "S2">>}}
    /\ label_map = EmptyMap
    /\ convert_t2s = FALSE
    /\ pc = "start"
    /\ idx = 0
    /\ it_in = NoLabel
    /\ it_out = NoLabel
    /\ summary = [aligned_by_simp |-> 0, aligned_by_trad_t2s |-> 0,
                  fallback_translated |-> 0, processed_files |-> 0]

\* lines 138-144: the korean file has no labelDataArray list and is copied through
CommonCopyThrough ==
    /\ pc = "start"
    /\ pc' = "saved"
    /\ summary' = [summary EXCEPT !.processed_files = @ + 1]
    /\ UNCHANGED <<simp_doc, trad_doc, conv_fails, label_map, convert_t2s, idx, it_in, it_out>>
    /\ UNCHANGED not_common

CommonLoadTradFirst ==
    /\ pc = "start"
    /\ pc' = "loop"
    /\ IF trad_doc.exists
       THEN /\ label_map' = build_label_map_from_msbt(trad_doc)
            /\ convert_t2s' = TRUE
            /\ summary' = [summary EXCEPT !.aligned_by_trad_t2s = @ + 1]
       ELSE IF simp_doc.exists
       THEN /\ label_map' = build_label_map_from_msbt(simp_doc)
            /\ convert_t2s' = FALSE
            /\ summary' = [summary EXCEPT !.aligned_by_simp = @ + 1]
       ELSE UNCHANGED <<label_map, convert_t2s, summary>>
    /\ UNCHANGED <<simp_doc, trad_doc, conv_fails, idx, it_in, it_out>>
    /\ UNCHANGED not_common

\* lines 146-159: choose the donor file and build its label index
CommonLoad ==
    /\ pc = "start"
    /\ pc' = "loop"
    /\ IF simp_doc.exists
       THEN /\ label_map' = build_label_map_from_msbt(simp_doc)
            /\ convert_t2s' = FALSE
            /\ summary' = [summary EXCEPT !.aligned_by_simp = @ + 1]
       ELSE IF trad_doc.exists
       THEN /\ label_map' = build_label_map_from_msbt(trad_doc)
            /\ convert_t2s' = TRUE
            /\ summary' = [summary EXCEPT !.aligned_by_trad_t2s = @ + 1]
       ELSE UNCHANGED <<label_map, convert_t2s, summary>>
    /\ UNCHANGED <<simp_doc, trad_doc, conv_fails, idx, it_in, it_out>>
    /\ UNCHANGED not_common

\* lines 162-181: the next label of ko_arr
CommonLabel ==
    /\ pc = "loop"
    /\ idx < MaxLabels
    /\ \E it \in KoLabels :
         LET out == ResolveLabel(it, label_map, convert_t2s)
         IN /\ it_in' = it
            /\ it_out' = out
            /\ pc' = IF AnyRaised(out) THEN "crashed" ELSE "loop"
            /\ summary' = IF it.labelName \notin DOMAIN label_map /\ it.hasWords
                             /\ FallbackChanged(it.words)
                          THEN [summary EXCEPT !.fallback_translated = @ + 1]
                          ELSE summary
    /\ idx' = idx + 1
    /\ UNCHANGED <<simp_doc, trad_doc, conv_fails, label_map, convert_t2s>>
    /\ UNCHANGED not_common

\* lines 182-183: ko_arr is exhausted
CommonSave ==
    /\ pc = "loop"
    /\ pc' = "saved"
    /\ summary' = [summary EXCEPT !.processed_files = @ + 1]
    /\ UNCHANGED <<simp_doc, trad_doc, conv_fails, label_map, convert_t2s, idx, it_in, it_out>>
    /\ UNCHANGED not_common

CommonIdle ==
    /\ simp_doc = Doc(FALSE, FALSE, <<>>) /\ trad_doc = Doc(FALSE, FALSE, <<>>)
    /\ conv_fails = {} /\ label_map = EmptyMap /\ convert_t2s = FALSE
    /\ pc = "idle" /\ idx = 0 /\ it_in = NoLabel /\ it_out = NoLabel
    /\ summary = [aligned_by_simp |-> 0, aligned_by_trad_t2s |-> 0,
                  fallback_translated |-> 0, processed_files |-> 0]

CommonNext ==
    \/ CommonCopyThrough
    \/ CommonLoad
    \/ CommonLabel
    \/ CommonSave

(***************************************************************************)
(* generate_si.py: replace_texts_by_trad, replace_texts_by_trad_on_korean  *)
(***************************************************************************)
\* m_Name values, as token sequences: 'english_x', 'korean_x', 'si_x', 'x', ''
MNames == {<<"english_", "x">>, <<"korean_", "x">>, <<"si_", "x">>, <<"x">>, <<>>}

\* the template's word lists (English or Korean texts)
TemplateLabels(fn) ==
    IF fn = "korean" THEN KoLabels
    ELSE {Label(n, TRUE, [j \in 1..k |-> Word(j # 2, IF j # 2 THEN <<"e">> ELSE <<>>, 10 + j, 1)]) :
             n \in Names, k \in 0..MaxWords}
         \cup {Label(n, FALSE, <<>>) : n \in Names}

\* the labels of a trad_chinese_* file
TradLabels ==
    {Label(n, TRUE, [j \in 1..k |-> DonorWord(src, j)]) :
        n \in Names, k \in 0..MaxWords, src \in {"simp", "trad"}}
        \cup {Label(n, FALSE, <<>>) : n \in Names}

\* lines 86-90 / 175-179: the si_ name
Rename(fn, name) ==
    IF StartsWith(name, <<fn \o "_">>) THEN <<"si_">> \o Tail(name) ELSE <<"si_">> \o name

\* lines 102-107 / 190-194: the inner loop over the words of label i
ReplaceWordsWholeEntry(e_words, t_words) ==
    [j \in 1..Len(e_words) |-> IF j <= Len(t_words) THEN t_words[j] ELSE e_words[j]]

ReplaceWordsAppend(e_words, t_words) ==
    [j \in 1..Len(e_words) |->
        IF j <= Len(t_words)
        THEN [e_words[j] EXCEPT
                !.has = TRUE,
                !.str = IF t_words[j].has THEN e_words[j].str \o t_words[j].str
                        ELSE IF e_words[j].has THEN e_words[j].str ELSE <<>>]
        ELSE e_words[j]]

ReplaceWords(e_words, t_words) ==
    [j \in 1..Len(e_words) |->
        IF j <= Len(t_words)
        THEN [e_words[j] EXCEPT
                !.has = TRUE,
                !.str = IF t_words[j].has THEN t_words[j].str
                        ELSE IF e_words[j].has THEN e_words[j].str ELSE <<>>]
        ELSE e_words[j]]

\* the body of `for i, eng_label in enumerate(eng_labels)` when i < len(trad_labels)
ReplaceLabel(e_label, tlabel) ==
    IF e_label.hasWords /\ tlabel.hasWords
    THEN [e_label EXCEPT !.words = ReplaceWords(@, tlabel.words)]
    ELSE e_label

SiInit ==
    /\ si_fn \in {"english", "korean"}
    /\ si_pc = "start"
    /\ name_in \in MNames
    /\ result_name = name_in
    /\ trad_none \in BOOLEAN
    /\ trad_len \in 0..MaxLabels
    /\ (trad_none => trad_len = 0)
    /\ si_idx = 0
    /\ e_in = NoLabel /\ t_lab = NoLabel /\ e_out = NoLabel

SiIdle ==
    /\ si_fn = "english" /\ si_pc = "idle" /\ name_in = <<>> /\ result_name = <<>>
    /\ trad_none = TRUE /\ trad_len = 0 /\ si_idx = 0
    /\ e_in = NoLabel /\ t_lab = NoLabel /\ e_out = NoLabel

\* lines 84-97 / 174-185: deepcopy, rename, return early when trad is None
SiRename ==
    /\ si_pc = "start"
    /\ result_name' = Rename(si_fn, name_in)
    /\ si_pc' = IF trad_none THEN "returned" ELSE "loop"
    /\ UNCHANGED <<si_fn, name_in, trad_none, trad_len, si_idx, e_in, t_lab, e_out>>
    /\ UNCHANGED not_si

\* lines 99-107 / 187-194: the next label of the result
SiLabel ==
    /\ si_pc = "loop"
    /\ si_idx < MaxLabels
    /\ \E e \in TemplateLabels(si_fn) :
         /\ e_in' = e
         /\ IF si_idx < trad_len
            THEN \E t \in TradLabels : t_lab' = t /\ e_out' = ReplaceLabel(e, t)
            ELSE t_lab' = NoLabel /\ e_out' = e
    /\ si_idx' = si_idx + 1
    /\ UNCHANGED <<si_fn, si_pc, name_in, result_name, trad_none, trad_len>>
    /\ UNCHANGED not_si

\* line 108 / 195: eng_labels is exhausted
SiReturn ==
    /\ si_pc = "loop"
    /\ si_pc' = "returned"
    /\ UNCHANGED <<si_fn, name_in, result_name, trad_none, trad_len, si_idx, e_in, t_lab, e_out>>
    /\ UNCHANGED not_si

SiNext ==
    \/ SiRename
    \/ SiLabel
    \/ SiReturn

(***************************************************************************)
(* JSON values: t is the Python type; n an int, s a str, ks/vs the keys and *)
(* values of a dict in insertion order, vs the items of a list.            *)
(***************************************************************************)
Num(n) == [t |-> "num", n |-> n, s |-> <<>>, ks |-> <<>>, vs |-> <<>>]

Str(s) == [t |-> "str", n |-> 0, s |-> s, ks |-> <<>>, vs |-> <<>>]

Dict(ks, vs) == [t |-> "dict", n |-> 0, s |-> <<>>, ks |-> ks, vs |-> vs]

List(vs) == [t |-> "list", n |-> 0, s |-> <<>>, ks |-> <<>>, vs |-> vs]

(***************************************************************************)
(* analyze_json_differences.py                                             *)
(***************************************************************************)
fullwidth_digits == <<"F0", "F1", "F2", "F3", "F4", "F5", "F6", "F7", "F8", "F9">>

halfwidth_digits == <<"0", "1", "2", "3", "4", "5", "6", "7", "8", "9">>

InStr(c, str) == \E d \in 1..Len(str) : str[d] = c

\* str.translate(str.maketrans(fullwidth_digits, halfwidth_digits))
Translate(str) ==
    [j \in 1..Len(str) |->
        IF InStr(str[j], fullwidth_digits)
        THEN halfwidth_digits[CHOOSE d \in 1..Len(fullwidth_digits) : fullwidth_digits[d] = str[j]]
        ELSE str[j]]

is_str_field(key, value) == value.t = "str"

is_numeric_format_diffNoUnequal(val1, val2) ==
    IF val1.t # "str" \/ val2.t # "str" THEN FALSE
    ELSE IF (\E j \in 1..Len(val1.s) : InStr(val1.s[j], fullwidth_digits))
              \/ (\E j \in 1..Len(val2.s) : InStr(val2.s[j], fullwidth_digits))
         THEN Translate(val1.s) = Translate(val2.s)
         ELSE FALSE

\* line 35 with the test on val2 left out
is_numeric_format_diffFirstOnly(val1, val2) ==
    IF val1.t # "str" \/ val2.t # "str" THEN FALSE
    ELSE IF \E j \in 1..Len(val1.s) : InStr(val1.s[j], fullwidth_digits)
         THEN val1 # val2 /\ Translate(val1.s) = Translate(val2.s)
         ELSE FALSE

is_numeric_format_diff(val1, val2) ==
    IF val1.t # "str" \/ val2.t # "str" THEN FALSE
    ELSE IF (\E j \in 1..Len(val1.s) : InStr(val1.s[j], fullwidth_digits))
              \/ (\E j \in 1..Len(val2.s) : InStr(val2.s[j], fullwidth_digits))
         THEN val1 # val2 /\ Translate(val1.s) = Translate(val2.s)
         ELSE FALSE

K_strWidth == <<"s", "t", "r", "W", "i", "d", "t", "h">>

K_str == <<"s", "t", "r">>

K_id == <<"i", "d">>

K_xstr == <<"x", "s", "t", "r">>

K_w == <<"w">>

\* lines 56-67: the bucket a leaf pair is counted in, "none" when it is not counted
LeafBucketNumericFirst(path, data1, data2) ==
    IF is_str_field(path, data1) /\ is_str_field(path, data2)
         /\ is_numeric_format_diff(data1, data2)
    THEN "numeric_format"
    ELSE IF EndsWith(path, K_strWidth) /\ data1 # data2 THEN "strWidth"
    ELSE IF is_str_field(path, data1) /\ is_str_field(path, data2)
              /\ data1 # data2 /\ ~EndsWith(path, K_str)
         THEN "other"
         ELSE "none"

\* lines 56-67 with the isinstance tests of line 61 left out
LeafBucketNoTypeTest(path, data1, data2) ==
    IF EndsWith(path, K_strWidth) /\ data1 # data2 THEN "strWidth"
    ELSE IF is_numeric_format_diff(data1, data2) THEN "numeric_format"
    ELSE IF data1 # data2 /\ ~EndsWith(path, K_str) THEN "other"
    ELSE "none"

LeafBucket(path, data1, data2) ==
    IF EndsWith(path, K_strWidth) /\ data1 # data2 THEN "strWidth"
    ELSE IF is_str_field(path, data1) /\ is_str_field(path, data2)
         THEN IF is_numeric_format_diff(data1, data2) THEN "numeric_format"
              ELSE IF data1 # data2 /\ ~EndsWith(path, K_str) THEN "other"
              ELSE "none"
         ELSE "none"

\* differences[bucket] += 1; differences['total'] += 1
Count(d, bucket) ==
    IF bucket = "none" THEN d ELSE [d EXCEPT ![bucket] = @ + 1, !.total = @ + 1]

Frame(a, b, path) == [a |-> a, b |-> b, path |-> path]

\* lines 47-50: the recursive calls for the keys of data1 that data2 has too
RECURSIVE DictCalls(_, _, _, _)
DictCalls(data1, data2, path, i) ==
    IF i > Len(data1.ks) THEN <<>>
    ELSE LET key == data1.ks[i]
             new_path == IF path # <<>> THEN path \o <<".">> \o key ELSE key
         IN (IF \E h \in 1..Len(data2.ks) : data2.ks[h] = key
             THEN <<Frame(data1.vs[i],
                          data2.vs[CHOOSE h \in 1..Len(data2.ks) : data2.ks[h] = key],
                          new_path)>>
             ELSE <<>>)
            \o DictCalls(data1, data2, path, i + 1)

\* lines 52-54: the recursive calls for zip(data1, data2)
ListCalls(data1, data2, path) ==
    LET n == IF Len(data1.vs) < Len(data2.vs) THEN Len(data1.vs) ELSE Len(data2.vs)
    IN [i \in 1..n |-> Frame(data1.vs[i], data2.vs[i], path \o <<"[", ToString(i - 1), "]">>)]

ZeroCounts == [strWidth |-> 0, numeric_format |-> 0, other |-> 0, total |-> 0]

\* lines 44-67 as a function of the counts so far: compare_structures, and
\* its recursive calls made in order from the i-th on
RECURSIVE compare_structures(_, _, _, _)
RECURSIVE CompareCalls(_, _, _)
CompareCalls(calls, i, d) ==
    IF i > Len(calls) THEN d
    ELSE CompareCalls(calls, i + 1, compare_structures(calls[i].a, calls[i].b, calls[i].path, d))

compare_structures(data1, data2, path, d) ==
    IF data1.t = "dict" /\ data2.t = "dict"
    THEN CompareCalls(DictCalls(data1, data2, path, 1), 1, d)
    ELSE IF data1.t = "list" /\ data2.t = "list"
         THEN CompareCalls(ListCalls(data1, data2, path), 1, d)
         ELSE Count(d, LeafBucket(path, data1, data2))

\* lines 13-70
analyze_differences(chinese_data, korean_data) ==
    compare_structures(chinese_data, korean_data, <<>>, ZeroCounts)

\* the documents compared: one leaf value v under key k, in one of six shapes
LeafVals == {Num(1), Num(2), Str(<<"F1">>), Str(<<"1">>), Str(<<"A">>)}

DiffKeys == {K_strWidth, K_str, K_id, K_xstr}

DiffDocs ==
    LeafVals
      \cup {List(<<v>>) : v \in LeafVals}
      \cup {List(<<Str(<<"A">>), v>>) : v \in LeafVals}
      \cup {Dict(<<k>>, <<v>>) : k \in DiffKeys, v \in LeafVals}
      \cup {Dict(<<K_id, k>>, <<Num(1), v>>) : k \in DiffKeys \ {K_id}, v \in LeafVals}
      \cup {Dict(<<K_w>>, <<List(<<Dict(<<k>>, <<v>>)>>)>>) : k \in DiffKeys, v \in LeafVals}

NoFrame == Frame(Num(0), Num(0), <<>>)

DiffInit ==
    /\ d_a \in DiffDocs
    /\ d_b \in DiffDocs
    /\ d_stack = <<Frame(d_a, d_b, <<>>)>>
    /\ differences = ZeroCounts
    /\ d_leaf = NoFrame
    /\ d_prev = ZeroCounts
    /\ d_pc = "walk"
    /\ d_args = <<d_a, d_b>>

DiffIdle ==
    /\ d_a = Num(0) /\ d_b = Num(0) /\ d_stack = <<>> /\ differences = ZeroCounts
    /\ d_leaf = NoFrame /\ d_prev = ZeroCounts /\ d_pc = "idle"
    /\ d_args = <<Num(0), Num(0)>>

\* lines 46-50: compare_structures on two dicts
VisitDicts ==
    /\ d_pc = "walk" /\ d_stack # <<>>
    /\ LET f == Head(d_stack)
       IN /\ f.a.t = "dict" /\ f.b.t = "dict"
          /\ d_stack' = DictCalls(f.a, f.b, f.path, 1) \o Tail(d_stack)
    /\ UNCHANGED <<d_a, d_b, differences, d_leaf, d_prev, d_pc, d_args>>
    /\ UNCHANGED not_diff

\* lines 51-54: compare_structures on two lists
VisitLists ==
    /\ d_pc = "walk" /\ d_stack # <<>>
    /\ LET f == Head(d_stack)
       IN /\ f.a.t = "list" /\ f.b.t = "list"
          /\ d_stack' = ListCalls(f.a, f.b, f.path) \o Tail(d_stack)
    /\ UNCHANGED <<d_a, d_b, differences, d_leaf, d_prev, d_pc, d_args>>
    /\ UNCHANGED not_diff

\* lines 55-67: compare_structures on anything else
VisitLeaf ==
    /\ d_pc = "walk" /\ d_stack # <<>>
    /\ LET f == Head(d_stack)
       IN /\ ~(f.a.t = "dict" /\ f.b.t = "dict")
          /\ ~(f.a.t = "list" /\ f.b.t = "list")
          /\ differences' = Count(differences, LeafBucket(f.path, f.a, f.b))
          /\ d_leaf' = f
          /\ d_prev' = differences
          /\ d_stack' = Tail(d_stack)
    /\ UNCHANGED <<d_a, d_b, d_pc, d_args>>
    /\ UNCHANGED not_diff

\* lines 69-70: return differences
DiffReturn ==
    /\ d_pc = "walk" /\ d_stack = <<>>
    /\ d_pc' = "returned"
    /\ UNCHANGED <<d_a, d_b, d_stack, differences, d_leaf, d_prev, d_args>>
    /\ UNCHANGED not_diff

DiffNext ==
    \/ VisitDicts
    \/ VisitLists
    \/ VisitLeaf
    \/ DiffReturn

\* is_numeric_format_diff on its own
DigitChars == {"F1", "F2", "1", "2", "A", "FA"}

NumArgs == {Num(12)} \cup {Str(x) : x \in StringsUpTo(DigitChars, MaxDigitsLen)}

NumInit ==
    /\ n_a \in NumArgs
    /\ n_b \in NumArgs
    /\ n_res = FALSE
    /\ n_pc = "called"

NumIdle == n_a = Num(0) /\ n_b = Num(0) /\ n_res = FALSE /\ n_pc = "idle"

NumReturn ==
    /\ n_pc = "called"
    /\ n_res' = is_numeric_format_diff(n_a, n_b)
    /\ n_pc' = "returned"
    /\ UNCHANGED <<n_a, n_b>>
    /\ UNCHANGED not_num

NumNext == NumReturn

(***************************************************************************)
(* compare_json_files.py: is_likely_text_field                             *)
(***************************************************************************)
TextLenThreshold == 50

LowerOf == [A |-> "a", B |-> "b", C |-> "c", D |-> "d", E |-> "e", F |-> "f", G |-> "g", H |-> "h", I |-> "i", J |-> "j", K |-> "k", L |-> "l", M |-> "m", N |-> "n", O |-> "o", P |-> "p", Q |-> "q", R |-> "r", S |-> "s", T |-> "t", U |-> "u", V |-> "v", W |-> "w", X |-> "x", Y |-> "y", Z |-> "z"]

\* str.lower()
Lower(str) == [j \in 1..Len(str) |-> IF str[j] \in DOMAIN LowerOf THEN LowerOf[str[j]] ELSE str[j]]

text_key_patterns ==
    <<<<"_", "t", "e", "x", "t">>,
      <<"_", "n", "a", "m", "e">>,
      <<"_", "d", "e", "s", "c">>,
      <<"_", "t", "i", "t", "l", "e">>,
      <<"t", "e", "x", "t", "_">>,
      <<"n", "a", "m", "e", "_">>,
      <<"d", "e", "s", "c", "_">>,
      <<"t", "i", "t", "l", "e", "_">>>>

IsDigitChar(c) == InStr(c, halfwidth_digits) \/ InStr(c, fullwidth_digits)

IsAlnumChar(c) ==
    \/ IsDigitChar(c)
    \/ c \in DOMAIN LowerOf
    \/ c \in {LowerOf[u] : u \in DOMAIN LowerOf}

is_likely_text_fieldCaseSensitive(key, value) ==
    IF value.t # "str" THEN FALSE
    ELSE IF \E m \in 1..Len(text_key_patterns) : Contains_(key, text_key_patterns[m])
         THEN TRUE
    ELSE IF Len(value.s) > TextLenThreshold THEN TRUE
    ELSE FALSE

is_likely_text_field(key, value) ==
    IF value.t # "str" THEN FALSE
    ELSE IF \E m \in 1..Len(text_key_patterns) :
                Contains_(Lower(key), Lower(text_key_patterns[m]))
         THEN TRUE
    ELSE IF Len(value.s) > TextLenThreshold THEN TRUE
    ELSE IF value.s # <<>> /\ \A j \in 1..Len(value.s) : IsDigitChar(value.s[j]) THEN FALSE
    ELSE IF Len(value.s) <= 5
              /\ \A j \in 1..Len(value.s) : IsAlnumChar(value.s[j]) \/ value.s[j] \in {"_", "-"}
         THEN FALSE
    ELSE FALSE

FieldKeys ==
    {<<"i", "t", "e", "m", "_", "n", "a", "m", "e">>,
     <<"c", "o", "u", "n", "t">>,
     <<"i", "d">>,
     <<"d", "e", "s", "c">>,
     <<"I", "t", "e", "m", "_", "N", "a", "m", "e">>,
     <<"T", "E", "X", "T", "_", "I", "D">>,
     <<"n", "a", "m", "e">>,
     <<"t", "i", "t", "l", "e", "_", "x">>,
     <<"x", "_", "d", "e", "s", "c">>,
     <<"_", "t", "i", "t", "l", "e">>,
     <<"l", "a", "b", "e", "l", "N", "a", "m", "e">>,
     <<"s", "t", "r">>}

Rep(c, n) == [j \in 1..n |-> c]

FieldVals ==
    {Num(42), Dict(<<>>, <<>>), List(<<>>),
     Str(<<>>), Str(<<"P", "o", "t", "i", "o", "n">>), Str(<<"4", "2">>), Str(<<"a", "b", "-", "1">>), Str(<<"h", "e", "l", "l", "o", ",", " ", "w", "o", "r", "l", "d">>),
     Str(Rep("A", TextLenThreshold - 1)), Str(Rep("A", TextLenThreshold)),
     Str(Rep("A", TextLenThreshold + 1)), Str(Rep("7", TextLenThreshold + 1)),
     Str(Rep("A", TextLenThreshold + 10))}

FieldInit ==
    /\ f_key \in FieldKeys
    /\ f_val \in FieldVals
    /\ f_res = FALSE
    /\ f_pc = "called"

FieldIdle == f_key = <<>> /\ f_val = Num(0) /\ f_res = FALSE /\ f_pc = "idle"

FieldReturn ==
    /\ f_pc = "called"
    /\ f_res' = is_likely_text_field(f_key, f_val)
    /\ f_pc' = "returned"
    /\ UNCHANGED <<f_key, f_val>>
    /\ UNCHANGED not_field

FieldNext == FieldReturn

(***************************************************************************)
(* Word entries as Python objects.  heap maps the address of a dict to its *)
(* keys; attrs is the address in bags of a nested value of the entry.      *)
(* dict(item) copies the keys and shares the nested value; deepcopy copies *)
(* both.                                                                   *)
(***************************************************************************)
HeapWord(w, a) ==
    [has |-> w.has, str |-> w.str, strWidth |-> w.strWidth, patternID |-> w.patternID,
     attrs |-> a]

Range(q) == {q[i] : i \in 1..Len(q)}

\* the contents of a word list, nested values included
Deep(addrs) ==
    [j \in 1..Len(addrs) |-> [e |-> heap[addrs[j]], bag |-> bags[heap[addrs[j]].attrs]]]

AliasInit ==
    /\ h_fn \in {"replace_worddata_strs", "replace_texts_by_trad"}
    /\ h_conv \in BOOLEAN
    /\ (h_fn = "replace_texts_by_trad" => h_conv = FALSE)
    /\ \E ns \in 0..MaxWords, nd \in 0..MaxWords, f \in {"term", "plain", "mixed"} :
         /\ heap = [i \in 1..(ns + nd) |->
                       IF i <= ns THEN HeapWord(DonorWord("trad", i), i)
                       ELSE HeapWord(KoWord(f, i - ns), i)]
         /\ bags = [i \in 1..(ns + nd) |-> <<"tag">>]
         /\ h_src = [j \in 1..ns |-> j]
         /\ h_dst = [j \in 1..nd |-> ns + j]
    /\ h_out = <<>>
    /\ h_j = 0
    /\ h_src0 = Deep(h_src)
    /\ h_dst0 = Deep(h_dst)
    /\ h_pc = "called"

AliasIdle ==
    /\ h_fn = "none" /\ h_pc = "idle" /\ heap = <<>> /\ bags = <<>>
    /\ h_src = <<>> /\ h_dst = <<>> /\ h_out = <<>> /\ h_conv = FALSE /\ h_j = 0
    /\ h_src0 = <<>> /\ h_dst0 = <<>>

\* new_wd.append(item) without dict(item): the entry written is the donor's
AliasItemNoCopy ==
    /\ h_fn = "replace_worddata_strs" /\ h_pc = "called"
    /\ h_j < Len(h_src)
    /\ LET a == h_src[h_j + 1]
           item == heap[a]
       IN /\ heap' = [heap EXCEPT ![a] =
                        IF item.has
                        THEN [item EXCEPT !.str = IF h_conv THEN t2s_str(@) ELSE @]
                        ELSE item]
          /\ h_out' = Append(h_out, a)
    /\ h_j' = h_j + 1
    /\ UNCHANGED <<h_fn, h_pc, bags, h_src, h_dst, h_conv, h_src0, h_dst0>>
    /\ UNCHANGED not_alias

\* bdsp_translate.py lines 112-116: new_item = dict(item); new_item['str'] = ...;
\* new_wd.append(new_item)
AliasItem ==
    /\ h_fn = "replace_worddata_strs" /\ h_pc = "called"
    /\ h_j < Len(h_src)
    /\ LET item == heap[h_src[h_j + 1]]
           new_item == IF item.has
                       THEN [item EXCEPT !.str = IF h_conv THEN t2s_str(@) ELSE @]
                       ELSE item
       IN /\ heap' = Append(heap, new_item)
          /\ h_out' = Append(h_out, Len(heap) + 1)
    /\ h_j' = h_j + 1
    /\ UNCHANGED <<h_fn, h_pc, bags, h_src, h_dst, h_conv, h_src0, h_dst0>>
    /\ UNCHANGED not_alias

\* line 117: return new_wd
AliasReturn ==
    /\ h_fn = "replace_worddata_strs" /\ h_pc = "called"
    /\ h_j = Len(h_src)
    /\ h_pc' = "returned"
    /\ UNCHANGED <<h_fn, heap, bags, h_src, h_dst, h_out, h_conv, h_j, h_src0, h_dst0>>
    /\ UNCHANGED not_alias

\* generate_si.py line 84 / 174: result = deepcopy(english)
AliasDeepcopy ==
    /\ h_fn = "replace_texts_by_trad" /\ h_pc = "called"
    /\ heap' = heap \o [j \in 1..Len(h_dst) |->
                          [heap[h_dst[j]] EXCEPT !.attrs = Len(bags) + j]]
    /\ bags' = bags \o [j \in 1..Len(h_dst) |-> bags[heap[h_dst[j]].attrs]]
    /\ h_out' = [j \in 1..Len(h_dst) |-> Len(heap) + j]
    /\ h_pc' = "copied"
    /\ UNCHANGED <<h_fn, h_src, h_dst, h_conv, h_j, h_src0, h_dst0>>
    /\ UNCHANGED not_alias

\* lines 104-107 / 192-194: the next word of the result's label
AliasSiWord ==
    /\ h_fn = "replace_texts_by_trad" /\ h_pc = "copied"
    /\ h_j < Len(h_out)
    /\ LET j == h_j + 1
           e_word == heap[h_out[j]]
       IN heap' = IF j <= Len(h_src)
                  THEN [heap EXCEPT ![h_out[j]] =
                          [e_word EXCEPT
                             !.has = TRUE,
                             !.str = IF heap[h_src[j]].has THEN heap[h_src[j]].str
                                     ELSE IF e_word.has THEN e_word.str ELSE <<>>]]
                  ELSE heap
    /\ h_j' = h_j + 1
    /\ UNCHANGED <<h_fn, h_pc, bags, h_src, h_dst, h_out, h_conv, h_src0, h_dst0>>
    /\ UNCHANGED not_alias

\* line 108 / 195: return result
AliasSiReturn ==
    /\ h_fn = "replace_texts_by_trad" /\ h_pc = "copied"
    /\ h_j = Len(h_out)
    /\ h_pc' = "returned"
    /\ UNCHANGED <<h_fn, heap, bags, h_src, h_dst, h_out, h_conv, h_j, h_src0, h_dst0>>
    /\ UNCHANGED not_alias

(***************************************************************************)
(* The batch loops.  A file of the batch is [load, donor, save]: whether   *)
(* reading it, reading its sibling, and writing its output succeed.        *)
(***************************************************************************)
BatchFiles == [load : {"ok", "fail"}, donor : {"ok", "fail", "absent"}, save : {"ok", "fail"}]

RECURSIVE SeqsUpTo(_, _)
SeqsUpTo(S, n) ==
    IF n = 0 THEN {<<>>}
    ELSE LET shorter == SeqsUpTo(S, n - 1)
         IN shorter \cup {Append(q, x) : q \in {y \in shorter : Len(y) = n - 1}, x \in S}

BatchPrograms ==
    {"bdsp_translate.process_common", "bdsp_translate.process_korean_export",
     "generate_si.process_common", "generate_si.process_korean_export",
     "generate_si.verify_and_report", "analyze_json_differences.main", "format_json.main"}

\* bdsp_translate.py lines 57-67, 138, 152/156, 182 and 227, 232, 256: load_json
\* and save_json have no exception handler, nor have their callers
bdsp_file(f) ==
    IF f.load = "fail" THEN "raised"
    ELSE IF f.donor = "fail" THEN "raised"
    ELSE IF f.save = "fail" THEN "raised"
    ELSE "processed"

\* generate_si.py lines 119-126 / 206-219: safe_load_json returns None on failure,
\* safe_save_json prints and raises again
si_file(f) ==
    IF f.load = "fail" THEN "skipped"
    ELSE IF f.save = "fail" THEN "raised"
    ELSE "processed"

\* generate_si.py lines 260-268 with 227-228: a file that cannot be loaded
\* is checked as {}
verify_file(f) == "processed"

\* analyze_json_differences.py lines 105-110
analyze_file(f) ==
    IF f.load = "fail" \/ f.donor = "fail" THEN "skipped" ELSE "processed"

\* format_json.py lines 6-18 and 30-39
format_file(f) ==
    IF f.load = "fail" \/ f.save = "fail" THEN "failed" ELSE "processed"

BatchInit ==
    /\ b_prog \in BatchPrograms
    /\ b_files \in SeqsUpTo(BatchFiles, MaxFiles)
    /\ b_i = 0
    /\ b_pc = "running"
    /\ b_log = <<>>

BatchIdle == b_prog = "none" /\ b_files = <<>> /\ b_i = 0 /\ b_pc = "idle" /\ b_log = <<>>

\* what one loop iteration does with its outcome: an exception leaves the loop
\* and the function
BatchStep(outcome) ==
    /\ b_i' = b_i + 1
    /\ IF outcome = "raised"
       THEN b_pc' = "crashed" /\ b_log' = b_log
       ELSE b_pc' = b_pc /\ b_log' = Append(b_log, outcome)
    /\ UNCHANGED <<b_prog, b_files>>
    /\ UNCHANGED not_batch

BdspBatchFile ==
    /\ b_prog \in {"bdsp_translate.process_common", "bdsp_translate.process_korean_export"}
    /\ b_pc = "running" /\ b_i < Len(b_files)
    /\ BatchStep(bdsp_file(b_files[b_i + 1]))

SiBatchFile ==
    /\ b_prog \in {"generate_si.process_common", "generate_si.process_korean_export"}
    /\ b_pc = "running" /\ b_i < Len(b_files)
    /\ BatchStep(si_file(b_files[b_i + 1]))

SiVerifyFile ==
    /\ b_prog = "generate_si.verify_and_report"
    /\ b_pc = "running" /\ b_i < Len(b_files)
    /\ BatchStep(verify_file(b_files[b_i + 1]))

AnalyzeFile ==
    /\ b_prog = "analyze_json_differences.main"
    /\ b_pc = "running" /\ b_i < Len(b_files)
    /\ BatchStep(analyze_file(b_files[b_i + 1]))

FormatFile ==
    /\ b_prog = "format_json.main"
    /\ b_pc = "running" /\ b_i < Len(b_files)
    /\ BatchStep(format_file(b_files[b_i + 1]))

\* the loop is exhausted
BatchEnd ==
    /\ b_pc = "running" /\ b_i = Len(b_files)
    /\ b_pc' = "done"
    /\ UNCHANGED <<b_prog, b_files, b_i, b_log>>
    /\ UNCHANGED not_batch

BatchNext ==
    \/ BdspBatchFile
    \/ SiBatchFile
    \/ SiVerifyFile
    \/ AnalyzeFile
    \/ FormatFile
    \/ BatchEnd

(***************************************************************************)
(* bdsp_translate.py: process_korean_export, one file of the loop          *)
(***************************************************************************)
\* the labels of a korean_*.json: Korean texts, or texts that already are the
\* converted texts of the trad_chinese_* file
KxLabels ==
    KoLabels \cup
    {Label(n, TRUE, [j \in 1..k |->
                        [DonorWord("trad", j) EXCEPT
                            !.str = [h \in 1..Len(@) |-> ConvertChar(@[h])]]]) :
        n \in Names, k \in 1..MaxWords}

KxZero ==
    [processed_files |-> 0, aligned_by_trad_t2s |-> 0, copied_untranslated_struct |-> 0,
     labels_aligned |-> 0, labels_fallback_translated |-> 0]

KxInit ==
    /\ kx_trad \in DonorDocs("trad")
    /\ kx_ko_list \in BOOLEAN
    /\ kx_len \in 0..MaxLabels
    /\ (~kx_ko_list => kx_len = 0)
    /\ kx_map = EmptyMap
    /\ kx_pc = "start"
    /\ kx_idx = 0
    /\ kx_in = NoLabel /\ kx_out = NoLabel
    /\ kx_summary = KxZero /\ kx_prev = KxZero

KxIdle ==
    /\ kx_trad = Doc(FALSE, FALSE, <<>>) /\ kx_ko_list = FALSE /\ kx_len = 0
    /\ kx_map = EmptyMap /\ kx_pc = "idle" /\ kx_idx = 0
    /\ kx_in = NoLabel /\ kx_out = NoLabel
    /\ kx_summary = KxZero /\ kx_prev = KxZero

\* lines 227-234, 258, 263-265, 276: which branch the file takes
KxStart ==
    /\ kx_pc = "start"
    /\ IF kx_trad.exists
       THEN /\ kx_map' = build_label_map_from_msbt(kx_trad)
            /\ kx_pc' = IF kx_ko_list /\ kx_map' # EmptyMap THEN "aligned" ELSE "copy"
       ELSE /\ kx_map' = kx_map
            /\ kx_pc' = IF kx_ko_list THEN "fallback" ELSE "copy"
    /\ kx_prev' = kx_summary
    /\ UNCHANGED <<kx_trad, kx_ko_list, kx_len, kx_idx, kx_in, kx_out, kx_summary>>
    /\ UNCHANGED not_kx

\* lines 235-254: the next label of ko_arr when a trad index is in use
KxAlignedLabel ==
    /\ kx_pc = "aligned"
    /\ kx_idx < kx_len
    /\ \E it \in KxLabels :
         /\ kx_in' = it
         /\ kx_out' = ResolveLabel(it, kx_map, TRUE)
         /\ kx_summary' =
              IF it.labelName \in DOMAIN kx_map
              THEN [kx_summary EXCEPT !.labels_aligned = @ + 1]
              ELSE IF it.hasWords /\ FallbackChanged(it.words)
              THEN [kx_summary EXCEPT !.labels_fallback_translated = @ + 1]
              ELSE kx_summary
    /\ kx_prev' = kx_summary
    /\ kx_idx' = kx_idx + 1
    /\ UNCHANGED <<kx_trad, kx_ko_list, kx_len, kx_map, kx_pc>>
    /\ UNCHANGED not_kx

\* lines 255-257
KxAlignedSave ==
    /\ kx_pc = "aligned"
    /\ kx_idx = kx_len
    /\ kx_summary' = [kx_summary EXCEPT !.aligned_by_trad_t2s = @ + 1,
                                        !.processed_files = @ + 1]
    /\ kx_prev' = kx_summary
    /\ kx_pc' = "saved"
    /\ UNCHANGED <<kx_trad, kx_ko_list, kx_len, kx_map, kx_idx, kx_in, kx_out>>
    /\ UNCHANGED not_kx

\* lines 259-262 and 277-279: save_json(ko_obj, out_path) with ko_obj as loaded
KxCopy ==
    /\ kx_pc = "copy"
    /\ kx_summary' = [kx_summary EXCEPT !.copied_untranslated_struct = @ + 1,
                                        !.processed_files = @ + 1]
    /\ kx_prev' = kx_summary
    /\ kx_pc' = "saved"
    /\ UNCHANGED <<kx_trad, kx_ko_list, kx_len, kx_map, kx_idx, kx_in, kx_out>>
    /\ UNCHANGED not_kx

\* lines 266-272: the next label of ko_arr when there is no trad file
KxFallbackLabel ==
    /\ kx_pc = "fallback"
    /\ kx_idx < kx_len
    /\ \E it \in KxLabels :
         /\ kx_in' = it
         /\ kx_out' = IF it.hasWords
                      THEN [it EXCEPT !.words =
                              [j \in 1..Len(@) |->
                                  IF @[j].has
                                  THEN [@[j] EXCEPT !.str = kor_min_translate(@)]
                                  ELSE @[j]]]
                      ELSE it
    /\ kx_prev' = kx_summary
    /\ kx_idx' = kx_idx + 1
    /\ UNCHANGED <<kx_trad, kx_ko_list, kx_len, kx_map, kx_pc, kx_summary>>
    /\ UNCHANGED not_kx

\* lines 273-275
KxFallbackSave ==
    /\ kx_pc = "fallback"
    /\ kx_idx = kx_len
    /\ kx_summary' = [kx_summary EXCEPT !.labels_fallback_translated = @ + 1,
                                        !.processed_files = @ + 1]
    /\ kx_prev' = kx_summary
    /\ kx_pc' = "saved"
    /\ UNCHANGED <<kx_trad, kx_ko_list, kx_len, kx_map, kx_idx, kx_in, kx_out>>
    /\ UNCHANGED not_kx

KxNext ==
    \/ KxStart
    \/ KxAlignedLabel
    \/ KxAlignedSave
    \/ KxCopy
    \/ KxFallbackLabel
    \/ KxFallbackSave

(***************************************************************************)
(* bdsp_translate.py: build_label_map_from_msbt on its own                 *)
(***************************************************************************)
\* what json_obj.get('labelDataArray') can be: None for a missing key or null
ArrKinds == {"absent", "null", "number", "string", "dict", "list"}

\* the k-th label of the document: its word list tells the position
IndexLabelsAt(k) ==
    {Label(n, hw, IF hw THEN <<Word(TRUE, <<"S1">>, 40 + k, 2)>> ELSE <<>>) :
        n \in Names \cup {NoneName}, hw \in BOOLEAN}

RECURSIVE IndexLabelSeqs(_)
IndexLabelSeqs(n) ==
    IF n = 0 THEN {<<>>}
    ELSE LET shorter == IndexLabelSeqs(n - 1)
         IN shorter \cup {Append(q, l) : q \in {y \in shorter : Len(y) = n - 1},
                                        l \in IndexLabelsAt(n)}

IndexInit ==
    /\ x_kind \in ArrKinds
    /\ x_doc \in IF x_kind = "list"
                 THEN {Doc(TRUE, TRUE, ls) : ls \in IndexLabelSeqs(MaxIndexLabels)}
                 ELSE {Doc(TRUE, FALSE, <<>>)}
    /\ x_doc0 = x_doc
    /\ x_map = EmptyMap
    /\ x_pc = "called"

IndexIdle ==
    /\ x_kind = "absent" /\ x_doc = Doc(FALSE, FALSE, <<>>) /\ x_doc0 = x_doc
    /\ x_map = EmptyMap /\ x_pc = "idle"

\* lines 78-89
IndexBuild ==
    /\ x_pc = "called"
    /\ x_map' = build_label_map_from_msbt(x_doc)
    /\ x_pc' = "returned"
    /\ UNCHANGED <<x_kind, x_doc, x_doc0>>
    /\ UNCHANGED not_index

IndexNext == IndexBuild

(***************************************************************************)
(* compare_json_files.py: compare_json_structures.  A line of the returned *)
(* list is a record: kind names the f-string that made it, key its key     *)
(* (keys, for the two key-set lines), i the list index, n1/n2 the lengths, *)
(* v1/v2 the values and sub the nested line it wraps.                      *)
(***************************************************************************)
K_data == <<"d", "a", "t", "a">>

K_item_name == <<"i", "t", "e", "m", "_", "n", "a", "m", "e">>

\* the keys of the compared documents, in the order sorted() puts them
PresenceKeyOrder == <<K_data, K_id, K_item_name, K_str>>

\* sorted(keys)
Sorted(keys) == SelectSeq(PresenceKeyOrder, LAMBDA k : k \in keys)

\* d[key]
Get(d, key) == d.vs[CHOOSE h \in 1..Len(d.ks) : d.ks[h] = key]

Line(kind, key, i, n1, n2, v1, v2, sub) ==
    [kind |-> kind, key |-> key, i |-> i, n1 |-> n1, n2 |-> n2, v1 |-> v1, v2 |-> v2, sub |-> sub]

\* lines 62-64, 73-76: each nested line wrapped under the key (and index)
Wrap(kind, key, i, nested) ==
    [j \in 1..Len(nested) |-> Line(kind, key, i, 0, 0, Num(0), Num(0), <<nested[j]>>)]

RECURSIVE compare_json_structures(_, _)
RECURSIVE ItemLines(_, _, _, _)
RECURSIVE CommonLines(_, _, _, _)

\* lines 71-79: the elements of two lists of equal length, from index i on
ItemLines(key, val1, val2, i) ==
    IF i > Len(val1.vs) THEN <<>>
    ELSE LET item1 == val1.vs[i]
             item2 == val2.vs[i]
         IN (IF item1.t = "dict" /\ item2.t = "dict"
             THEN Wrap("index_under", key, i - 1, compare_json_structures(item1, item2))
             ELSE IF ~is_likely_text_field(key, item1) /\ ~is_likely_text_field(key, item2)
                       /\ item1 # item2
                  THEN <<Line("index_value", key, i - 1, 0, 0, item1, item2, <<>>)>>
                  ELSE <<>>)
            \o ItemLines(key, val1, val2, i + 1)

\* lines 55-83: the loop over sorted(common_keys), from position i on
CommonLines(file1_data, file2_data, common_keys, i) ==
    IF i > Len(common_keys) THEN <<>>
    ELSE LET key == common_keys[i]
             val1 == Get(file1_data, key)
             val2 == Get(file2_data, key)
         IN (IF val1.t = "dict" /\ val2.t = "dict"
             THEN Wrap("under", key, 0, compare_json_structures(val1, val2))
             ELSE IF val1.t = "list" /\ val2.t = "list"
                  THEN IF Len(val1.vs) # Len(val2.vs)
                       THEN <<Line("length", key, 0, Len(val1.vs), Len(val2.vs), Num(0), Num(0), <<>>)>>
                       ELSE ItemLines(key, val1, val2, 1)
             ELSE IF ~is_likely_text_field(key, val1) /\ ~is_likely_text_field(key, val2)
                       /\ val1 # val2
                  THEN <<Line("value", key, 0, 0, 0, val1, val2, <<>>)>>
                  ELSE <<>>)
            \o CommonLines(file1_data, file2_data, common_keys, i + 1)

\* lines 36-85
compare_json_structures(file1_data, file2_data) ==
    LET file1_keys == Range(file1_data.ks)
        file2_keys == Range(file2_data.ks)
        missing_in_file2 == file1_keys \ file2_keys
        extra_in_file2 == file2_keys \ file1_keys
        common_keys == file1_keys \cap file2_keys
    IN (IF missing_in_file2 # {}
        THEN <<Line("missing", Sorted(missing_in_file2), 0, 0, 0, Num(0), Num(0), <<>>)>>
        ELSE <<>>)
       \o (IF extra_in_file2 # {}
           THEN <<Line("extra", Sorted(extra_in_file2), 0, 0, 0, Num(0), Num(0), <<>>)>>
           ELSE <<>>)
       \o CommonLines(file1_data, file2_data, Sorted(common_keys), 1)

\* the values under a key of the compared documents
PresenceVals ==
    {Num(1), Num(2), Str(<<"A">>), Str(<<"B">>), Str(Rep("A", TextLenThreshold + 1)),
     Dict(<<K_id>>, <<Num(1)>>), Dict(<<K_id>>, <<Num(2)>>),
     List(<<>>), List(<<Num(1)>>), List(<<Str(<<"A">>)>>), List(<<Dict(<<K_id>>, <<Num(1)>>)>>),
     List(<<Dict(<<K_id, K_data>>, <<Num(2), Num(1)>>)>>)}

PresenceDocs ==
    {Dict(<<>>, <<>>)}
      \cup {Dict(<<k>>, <<v>>) : k \in Range(PresenceKeyOrder), v \in PresenceVals}
      \cup {Dict(<<K_str, k>>, <<Num(1), v>>) : k \in {K_data, K_item_name}, v \in PresenceVals}

PresenceInit ==
    /\ p_a \in PresenceDocs
    /\ p_b \in PresenceDocs
    /\ p_lines = <<>>
    /\ p_pc = "called"

PresenceIdle ==
    p_a = Dict(<<>>, <<>>) /\ p_b = Dict(<<>>, <<>>) /\ p_lines = <<>> /\ p_pc = "idle"

PresenceCompare ==
    /\ p_pc = "called"
    /\ p_lines' = compare_json_structures(p_a, p_b)
    /\ p_pc' = "returned"
    /\ UNCHANGED <<p_a, p_b>>
    /\ UNCHANGED not_presence

PresenceNext == PresenceCompare

(***************************************************************************)
(* generate_si.py: replace_texts_by_trad on a whole document, then         *)
(* verify_common_against_english on its output.  A document is its         *)
(* top-level keys: m_Name (hasName) and labelDataArray (hasArr).           *)
(***************************************************************************)
SiDoc(hasName, m_Name, hasArr, labels) ==
    [hasName |-> hasName, m_Name |-> m_Name, hasArr |-> hasArr, labels |-> labels]

\* trad is None
NoTrad == [none |-> TRUE, hasArr |-> FALSE, labels |-> <<>>]

TradDoc(hasArr, labels) == [none |-> FALSE, hasArr |-> hasArr, labels |-> labels]

\* d.get('labelDataArray', [])
LabelsOf(d) == IF d.hasArr THEN d.labels ELSE <<>>

\* label.get('wordDataArray', [])
WordsOf(label) == IF label.hasWords THEN label.words ELSE <<>>

\* lines 79-108
replace_texts_by_trad(english, trad) ==
    LET name == IF english.hasName THEN english.m_Name ELSE <<>>
        result == [english EXCEPT !.hasName = TRUE, !.m_Name = Rename("english", name)]
        eng_labels == LabelsOf(result)
        trad_labels == LabelsOf(trad)
    IN IF trad.none THEN result
       ELSE [result EXCEPT !.labels =
                [i \in 1..Len(eng_labels) |->
                    IF i <= Len(trad_labels)
                    THEN ReplaceLabel(eng_labels[i], trad_labels[i])
                    ELSE eng_labels[i]]]

\* lines 222-223: sorted(list(d.keys()))
collect_structure_keys(d) ==
    (IF d.hasArr THEN <<"labelDataArray">> ELSE <<>>) \o (IF d.hasName THEN <<"m_Name">> ELSE <<>>)

\* lines 226-254
verify_common_against_english(si, en) ==
    LET si_labels == LabelsOf(si)
        en_labels == LabelsOf(en)
        both == {i \in 1..Len(en_labels) : i <= Len(si_labels)}
    IN [top_keys_equal |-> collect_structure_keys(si) = collect_structure_keys(en),
        label_count_equal |-> Len(si_labels) = Len(en_labels),
        label_names_equal |->
            /\ \A i \in 1..Len(en_labels) : i <= Len(si_labels)
            /\ \A i \in both : si_labels[i].labelName = en_labels[i].labelName,
        word_arrays_len_equal |->
            \A i \in both : Len(WordsOf(si_labels[i])) = Len(WordsOf(en_labels[i])),
        missing_labels |-> {i - 1 : i \in (1..Len(en_labels)) \ both},
        mismatched_word_lengths |->
            {i - 1 : i \in {h \in both : Len(WordsOf(si_labels[h])) # Len(WordsOf(en_labels[h]))}}]

\* the labels of an english_* template
EnLabels ==
    {Label(n, TRUE, [j \in 1..k |-> Word(TRUE, <<"e">>, 10 + j, 1)]) : n \in Names, k \in 0..MaxWords}
        \cup {Label(n, FALSE, <<>>) : n \in Names}

\* the labels of its trad_chinese_* sibling
SiblingLabels ==
    {Label("A", TRUE, [j \in 1..k |-> DonorWord("trad", j)]) : k \in 0..MaxWords}
        \cup {Label("B", FALSE, <<>>)}

\* an english_* file process_common does not skip: a non-empty mapping
EnDocs ==
    {SiDoc(hn, IF hn THEN nm ELSE <<>>, TRUE, ls) :
        hn \in BOOLEAN, nm \in {<<"english_", "x">>, <<"x">>}, ls \in SeqsUpTo(EnLabels, MaxLabels)}
      \cup {SiDoc(TRUE, <<"english_", "x">>, FALSE, <<>>)}

SiblingDocs ==
    {NoTrad, TradDoc(FALSE, <<>>)} \cup {TradDoc(TRUE, ls) : ls \in SeqsUpTo(SiblingLabels, MaxLabels)}

NoReport ==
    [top_keys_equal |-> TRUE, label_count_equal |-> TRUE, label_names_equal |-> TRUE,
     word_arrays_len_equal |-> TRUE, missing_labels |-> {}, mismatched_word_lengths |-> {}]

VerifyInit ==
    /\ v_en \in EnDocs
    /\ v_trad \in SiblingDocs
    /\ v_si = v_en
    /\ v_report = NoReport
    /\ v_pc = "start"

VerifyIdle ==
    /\ v_en = SiDoc(FALSE, <<>>, FALSE, <<>>) /\ v_trad = NoTrad /\ v_si = v_en
    /\ v_report = NoReport /\ v_pc = "idle"

\* process_common lines 121-125: si = replace_texts_by_trad(english, trad); save
VerifyGenerate ==
    /\ v_pc = "start"
    /\ v_si' = replace_texts_by_trad(v_en, v_trad)
    /\ v_pc' = "generated"
    /\ UNCHANGED <<v_en, v_trad, v_report>>
    /\ UNCHANGED not_verify

\* verify_and_report line 268: verify_common_against_english(si_path, english_path)
VerifyCheck ==
    /\ v_pc = "generated"
    /\ v_report' = verify_common_against_english(v_si, v_en)
    /\ v_pc' = "verified"
    /\ UNCHANGED <<v_en, v_trad, v_si>>
    /\ UNCHANGED not_verify

VerifyNext ==
    \/ VerifyGenerate
    \/ VerifyCheck

\* kor_min_translate run one loop iteration at a time
TermsIdle == t_in = <<>> /\ t_out = <<>> /\ t_k = 0

TermsInit ==
    /\ t_in \in StringsUpTo(KoChars, MaxTextLen)
    /\ t_out = t_in
    /\ t_k = 1

TermIterate ==
    /\ t_k <= Len(KOR_CN_TERMS)
    /\ t_out' = TermStep(KOR_CN_TERMS, t_in, t_out, t_k)
    /\ t_k' = t_k + 1
    /\ UNCHANGED t_in
    /\ UNCHANGED not_terms

TermsNext == TermIterate

InitTerms == TermsInit /\ CommonIdle /\ SiIdle /\ DiffIdle /\ NumIdle /\ FieldIdle /\ AliasIdle /\ BatchIdle /\ KxIdle /\ IndexIdle /\ PresenceIdle /\ VerifyIdle

InitDiff == DiffInit /\ TermsIdle /\ CommonIdle /\ SiIdle /\ NumIdle /\ FieldIdle /\ AliasIdle /\ BatchIdle /\ KxIdle /\ IndexIdle /\ PresenceIdle /\ VerifyIdle

InitNum == NumInit /\ TermsIdle /\ CommonIdle /\ SiIdle /\ DiffIdle /\ FieldIdle /\ AliasIdle /\ BatchIdle /\ KxIdle /\ IndexIdle /\ PresenceIdle /\ VerifyIdle

InitField == FieldInit /\ TermsIdle /\ CommonIdle /\ SiIdle /\ DiffIdle /\ NumIdle /\ AliasIdle /\ BatchIdle /\ KxIdle /\ IndexIdle /\ PresenceIdle /\ VerifyIdle

InitIndex ==
    IndexInit /\ TermsIdle /\ CommonIdle /\ SiIdle /\ DiffIdle /\ NumIdle /\ FieldIdle /\ AliasIdle /\ BatchIdle /\ KxIdle /\ PresenceIdle /\ VerifyIdle

InitPresence ==
    PresenceInit /\ TermsIdle /\ CommonIdle /\ SiIdle /\ DiffIdle /\ NumIdle /\ FieldIdle /\ AliasIdle /\ BatchIdle /\ KxIdle /\ IndexIdle /\ VerifyIdle

InitVerify ==
    VerifyInit /\ TermsIdle /\ CommonIdle /\ SiIdle /\ DiffIdle /\ NumIdle /\ FieldIdle /\ AliasIdle /\ BatchIdle /\ KxIdle /\ IndexIdle /\ PresenceIdle

InitKx ==
    KxInit /\ TermsIdle /\ CommonIdle /\ SiIdle /\ DiffIdle /\ NumIdle /\ FieldIdle /\ AliasIdle /\ BatchIdle /\ IndexIdle /\ PresenceIdle /\ VerifyIdle

InitBatch ==
    BatchInit /\ TermsIdle /\ CommonIdle /\ SiIdle /\ DiffIdle /\ NumIdle /\ FieldIdle /\ AliasIdle /\ KxIdle /\ IndexIdle /\ PresenceIdle /\ VerifyIdle

\* one call of a function that is handed a donor or reference document
InitAlias ==
    /\ TermsIdle /\ CommonIdle /\ SiIdle /\ NumIdle /\ FieldIdle /\ BatchIdle /\ KxIdle /\ IndexIdle /\ PresenceIdle /\ VerifyIdle
    /\ \/ AliasInit /\ DiffIdle
       \/ AliasIdle /\ DiffInit

AliasNext ==
    \/ AliasItem
    \/ AliasReturn
    \/ AliasDeepcopy
    \/ AliasSiWord
    \/ AliasSiReturn
    \/ VisitDicts
    \/ VisitLists
    \/ VisitLeaf
    \/ DiffReturn

\* one run of either resolver: bdsp_translate.process_common on one file, or
\* one call of generate_si's replace_texts_by_trad / replace_texts_by_trad_on_korean
InitResolve ==
    /\ TermsIdle /\ DiffIdle /\ NumIdle /\ FieldIdle /\ AliasIdle /\ BatchIdle /\ KxIdle /\ IndexIdle /\ PresenceIdle /\ VerifyIdle
    /\ \/ CommonInit /\ SiIdle
       \/ CommonIdle /\ SiInit

ResolveNext ==
    \/ CommonCopyThrough
    \/ CommonLoad
    \/ CommonLabel
    \/ CommonSave
    \/ SiRename
    \/ SiLabel
    \/ SiReturn

SpecTerms == InitTerms /\ [][TermsNext]_vars

SpecResolve == InitResolve /\ [][ResolveNext]_vars

SpecDiff == InitDiff /\ [][DiffNext]_vars

SpecNum == InitNum /\ [][NumNext]_vars

SpecField == InitField /\ [][FieldNext]_vars

SpecAlias == InitAlias /\ [][AliasNext]_vars

SpecBatch == InitBatch /\ [][BatchNext]_vars

SpecKx == InitKx /\ [][KxNext]_vars

SpecIndex == InitIndex /\ [][IndexNext]_vars

SpecPresence == InitPresence /\ [][PresenceNext]_vars

SpecVerify == InitVerify /\ [][VerifyNext]_vars

(***************************************************************************)
(* Properties of the resolvers.  The reference definitions below read the  *)
(* donor files directly.                                                   *)
(***************************************************************************)
\* a label of process_common's ko_arr has been through the loop body
LabelDone == pc \in {"loop", "saved", "crashed"} /\ idx > 0

\* a label of generate_si's result has been through the loop body
SiLabelDone == si_pc \in {"loop", "returned"} /\ si_idx > 0

\* the positions of the labels of a file that are named n and carry a word list
Named(doc, n) ==
    IF doc.exists /\ doc.hasArr
    THEN {k \in 1..Len(doc.labels) : doc.labels[k].labelName = n /\ doc.labels[k].hasWords}
    ELSE {}

Contains(doc, n) == Named(doc, n) # {}

LastNamed(doc, n) ==
    doc.labels[CHOOSE k \in Named(doc, n) : \A h \in Named(doc, n) : h <= k].words

Strs(ws) == [j \in 1..Len(ws) |-> IF ws[j].has THEN <<"str", ws[j].str>> ELSE <<"absent">>]

Meta(w) == <<w.strWidth, w.patternID>>

Converted(s) == IF s \in conv_fails THEN s ELSE [j \in 1..Len(s) |-> ConvertChar(s[j])]

ConvertedStrs(ws) ==
    [j \in 1..Len(ws) |-> IF ws[j].has THEN <<"str", Converted(ws[j].str)>> ELSE <<"absent">>]

TermStrs(ws) ==
    [j \in 1..Len(ws) |-> IF ws[j].has THEN <<"str", kor_min_translate(ws[j].str)>> ELSE <<"absent">>]

FellBack == IF it_in.hasWords
            THEN it_out.hasWords /\ Strs(it_out.words) = TermStrs(it_in.words)
            ELSE it_out = it_in

\* C1 as claimed: per label, the primary file's text when its index contains
\* the label's name, otherwise the secondary file's converted text when that
\* one contains the name, and the term fallback only when neither contains it.
C1_PerLabelPriority ==
    LabelDone =>
        LET n == it_in.labelName
        IN IF Contains(simp_doc, n) THEN Strs(it_out.words) = Strs(LastNamed(simp_doc, n))
           ELSE IF Contains(trad_doc, n)
                THEN Strs(it_out.words) = ConvertedStrs(LastNamed(trad_doc, n))
                ELSE FellBack

\* C1 as amended: the donor file is chosen once per document (the primary file
\* when it exists, else the secondary file when it exists); a label takes the
\* chosen file's text when that file's index contains its name, and the term
\* fallback otherwise, also when the other file contains the name.
C1_PerDocumentPriority ==
    LabelDone =>
        LET n == it_in.labelName
        IN IF simp_doc.exists
           THEN (IF Contains(simp_doc, n)
                 THEN Strs(it_out.words) = Strs(LastNamed(simp_doc, n))
                 ELSE FellBack)
           ELSE IF trad_doc.exists
                THEN (IF Contains(trad_doc, n)
                      THEN Strs(it_out.words) = ConvertedStrs(LastNamed(trad_doc, n))
                      ELSE FellBack)
                ELSE FellBack

\* the primary file exists without the label's name, the secondary file holds
\* it, and a term changed the label's own text
C1_Witness ==
    /\ LabelDone
    /\ simp_doc.exists /\ ~Contains(simp_doc, it_in.labelName)
    /\ Contains(trad_doc, it_in.labelName)
    /\ Len(LastNamed(trad_doc, it_in.labelName)) > 0
    /\ it_in.hasWords /\ it_out # it_in

\* a donor was selected for the label of process_common / of generate_si
BdspDonor == LabelDone /\ it_in.labelName \in DOMAIN label_map

SiDonor == SiLabelDone /\ t_lab # NoLabel /\ e_in.hasWords /\ t_lab.hasWords

\* C2 as claimed: in both resolvers every output word keeps the target word's
\* strWidth and other fields; only its text is the donor's.
C2_MetadataFromTarget ==
    /\ BdspDonor =>
         \A j \in 1..Len(it_out.words) :
            j <= Len(it_in.words) => Meta(it_out.words[j]) = Meta(it_in.words[j])
    /\ SiDonor =>
         \A j \in 1..Len(e_out.words) : Meta(e_out.words[j]) = Meta(e_in.words[j])

\* C2 as amended: generate_si's resolvers give every target word that has a donor
\* word at its index the donor's text (its own text, or '' when it has none, if
\* the donor word has no 'str') and keep the target's strWidth and other fields;
\* bdsp_translate's replace_worddata_strs copies the donor's whole entries, so
\* strWidth and the other fields of its output are the donor's.
C2_TextOnlyInSiWholeEntryInBdsp ==
    /\ SiDonor =>
         /\ Len(e_out.words) = Len(e_in.words)
         /\ \A j \in 1..Len(e_out.words) :
              /\ Meta(e_out.words[j]) = Meta(e_in.words[j])
              /\ j <= Len(t_lab.words) =>
                   /\ e_out.words[j].has
                   /\ e_out.words[j].str =
                        IF t_lab.words[j].has THEN t_lab.words[j].str
                        ELSE IF e_in.words[j].has THEN e_in.words[j].str ELSE <<>>
    /\ BdspDonor =>
         LET donor == label_map[it_in.labelName]
         IN /\ Len(it_out.words) = Len(donor)
            /\ \A j \in 1..Len(donor) :
                 /\ Meta(it_out.words[j]) = Meta(donor[j])
                 /\ it_out.words[j].has = donor[j].has
                 /\ donor[j].has =>
                      it_out.words[j].str =
                        IF convert_t2s THEN Converted(donor[j].str) ELSE donor[j].str

\* generate_si replaced a text and left a width that differs from the donor's
C2_Witness ==
    /\ SiDonor
    /\ Len(e_in.words) > 0 /\ Len(t_lab.words) > 0
    /\ e_out.words[1].str = t_lab.words[1].str
    /\ e_out.words[1].str # e_in.words[1].str
    /\ e_out.words[1].strWidth = e_in.words[1].strWidth
    /\ e_out.words[1].strWidth # t_lab.words[1].strWidth

\* C3 as claimed: in both resolvers the output word list has the target's
\* length; below both lengths the text is the donor's, beyond the donor's length
\* the target word is unchanged, donor words beyond the target's length are
\* left out.
C3_OutputHasTargetLength ==
    /\ BdspDonor =>
         LET donor == label_map[it_in.labelName]
         IN /\ Len(it_out.words) = Len(it_in.words)
            /\ \A j \in 1..Len(it_out.words) :
                 j > Len(donor) => it_out.words[j] = it_in.words[j]
    /\ SiDonor =>
         /\ Len(e_out.words) = Len(e_in.words)
         /\ \A j \in 1..Len(e_out.words) :
              j > Len(t_lab.words) => e_out.words[j] = e_in.words[j]

\* C3 as amended: generate_si's resolvers return a word list of the target's
\* length (donor text below both lengths when the donor word has a 'str', the
\* target word unchanged beyond the donor's length, donor words beyond the
\* target's length left out); bdsp_translate's replace_worddata_strs returns a
\* word list of the donor's length: every donor word appears, and target words
\* at or beyond the donor's length are dropped.  Neither raises an error.
C3_LengthTargetInSiDonorInBdsp ==
    /\ pc # "crashed"
    /\ SiDonor =>
         /\ Len(e_out.words) = Len(e_in.words)
         /\ \A j \in 1..Len(e_out.words) :
              /\ (j > Len(t_lab.words) => e_out.words[j] = e_in.words[j])
              /\ (j <= Len(t_lab.words) /\ t_lab.words[j].has =>
                    e_out.words[j].has /\ e_out.words[j].str = t_lab.words[j].str)
    /\ BdspDonor =>
         LET donor == label_map[it_in.labelName]
         IN /\ it_out.hasWords
            /\ Len(it_out.words) = Len(donor)
            /\ \A j \in 1..Len(donor) : it_out.words[j].has = donor[j].has

\* process_common met a donor list longer than the target's list
C3_Witness ==
    /\ BdspDonor
    /\ it_in.hasWords
    /\ Len(label_map[it_in.labelName]) > Len(it_in.words)
    /\ Len(it_out.words) > Len(it_in.words)

\* generate_si met a target list longer than a non-empty donor list
C3_WitnessSi ==
    /\ SiDonor
    /\ Len(e_in.words) > Len(t_lab.words) /\ Len(t_lab.words) > 0

\* C4 as claimed: a label takes donor text only from a source label of the same
\* labelName; a differently named label at the same list position gives nothing.
C4_DonorHasSameName ==
    /\ SiLabelDone /\ t_lab # NoLabel /\ t_lab.labelName # e_in.labelName => e_out = e_in
    /\ LabelDone /\ ~Contains(simp_doc, it_in.labelName) /\ ~Contains(trad_doc, it_in.labelName)
         => FellBack

\* C5 as claimed: a second run over the output, with the same sources, returns
\* the output: m_Name, labels, word lists, texts and metadata.
C5_SecondRunChangesNothing ==
    /\ LabelDone => ResolveLabel(it_out, label_map, convert_t2s) = it_out
    /\ SiLabelDone =>
         /\ (t_lab # NoLabel => ReplaceLabel(e_out, t_lab) = e_out)
         /\ Rename(si_fn, result_name) = result_name

\* C5 as amended: a second run returns the same labels, word lists, texts and
\* metadata; generate_si's m_Name is not kept: every run of replace_texts_by_trad
\* / replace_texts_by_trad_on_korean over its own output prepends another 'si_'.
C5_SecondRunKeepsLabelsNotName ==
    /\ LabelDone => ResolveLabel(it_out, label_map, convert_t2s) = it_out
    /\ SiLabelDone /\ t_lab # NoLabel => ReplaceLabel(e_out, t_lab) = e_out
    /\ si_pc \in {"loop", "returned"} =>
         /\ Rename(si_fn, result_name) = <<"si_">> \o result_name
         /\ Rename(si_fn, result_name) # result_name

\* generate_si changed a text of the label and renamed an 'english_x' document
C5_Witness ==
    /\ SiDonor
    /\ e_out # e_in
    /\ name_in = <<"english_", "x">> /\ si_fn = "english"
    /\ result_name = <<"si_", "x">>

\* C6: with a donor that needs conversion every donor text goes through the
\* converter; where the converter raises, the word takes the donor's unconverted
\* text, the words after it are still converted, and the run goes on.
C6_ConversionFailureKeepsDonorText ==
    /\ pc # "crashed"
    /\ BdspDonor /\ convert_t2s =>
         LET donor == label_map[it_in.labelName]
         IN /\ Len(it_out.words) = Len(donor)
            /\ \A j \in 1..Len(donor) :
                 donor[j].has =>
                   it_out.words[j].str =
                     IF donor[j].str \in conv_fails THEN donor[j].str
                     ELSE [h \in 1..Len(donor[j].str) |-> ConvertChar(donor[j].str[h])]

\* the converter raised on the first word of a label, the second word was
\* converted, and a second label was processed after it
C6_Witness ==
    /\ BdspDonor /\ convert_t2s /\ idx = 2 /\ pc = "saved"
    /\ Len(it_out.words) = 2
    /\ label_map[it_in.labelName][1].str \in conv_fails
    /\ it_out.words[1].str = <<"T1", "S2">>
    /\ it_out.words[2].str = <<"S2">>

(***************************************************************************)
(* The three detectors, stated independently of the code's control flow    *)
(***************************************************************************)
FullDigits == {"F0", "F1", "F2", "F3", "F4", "F5", "F6", "F7", "F8", "F9"}

\* the half-width counterpart of a full-width digit; every other character is itself
HalfOf(c) ==
    CASE c = "F0" -> "0" [] c = "F1" -> "1" [] c = "F2" -> "2" [] c = "F3" -> "3"
      [] c = "F4" -> "4" [] c = "F5" -> "5" [] c = "F6" -> "6" [] c = "F7" -> "7"
      [] c = "F8" -> "8" [] c = "F9" -> "9" [] OTHER -> c

HasFullDigit(x) == \E j \in 1..Len(x) : x[j] \in FullDigits

EqualAfterHalving(x, y) ==
    Len(x) = Len(y) /\ \A j \in 1..Len(x) : HalfOf(x[j]) = HalfOf(y[j])

DigitFormatOnly(a, b) ==
    /\ a.t = "str" /\ b.t = "str"
    /\ HasFullDigit(a.s) \/ HasFullDigit(b.s)
    /\ a # b
    /\ EqualAfterHalving(a.s, b.s)

RuleA(f) == EndsWith(f.path, <<"s", "t", "r", "W", "i", "d", "t", "h">>) /\ f.a # f.b

RuleB(f) == DigitFormatOnly(f.a, f.b)

RuleC(f) == f.a.t = "str" /\ f.b.t = "str" /\ f.a # f.b /\ ~EndsWith(f.path, <<"s", "t", "r">>)

FirstMatch(f) ==
    IF RuleA(f) THEN "strWidth"
    ELSE IF RuleB(f) THEN "numeric_format"
    ELSE IF RuleC(f) THEN "other"
    ELSE "none"

Plus1(d, bucket) ==
    [k \in DOMAIN d |-> IF k = bucket \/ (k = "total" /\ bucket # "none") THEN d[k] + 1 ELSE d[k]]

\* C7: the leaf pair classified last went to the bucket of the first of the rules
\* a, b, c that matches it, or to none; that bucket and the total went up by one
\* and nothing else moved; the total is the sum of the three buckets; a leaf on
\* a width path never moves the numeric_format bucket.
C7_FirstMatchingRuleCounts ==
    /\ differences = Plus1(d_prev, FirstMatch(d_leaf))
    /\ differences.total
         = differences.strWidth + differences.numeric_format + differences.other
    /\ EndsWith(d_leaf.path, <<"s", "t", "r", "W", "i", "d", "t", "h">>)
         => differences.numeric_format = d_prev.numeric_format

\* a width leaf whose two values differ only in digit format was counted as a
\* width difference, in a comparison that returned
C7_Witness ==
    /\ d_pc = "returned"
    /\ d_leaf = Frame(Str(<<"F1">>), Str(<<"1">>), <<"w", "[", "0", "]", ".", "s", "t", "r", "W", "i", "d", "t", "h">>)
    /\ differences = [strWidth |-> 1, numeric_format |-> 0, other |-> 0, total |-> 1]

\* C8: the detector answers true exactly for two strings, at least one with a
\* full-width digit, that are unequal and equal after every full-width digit
\* is replaced by its half-width counterpart; a pair that differs in a
\* full-width letter, and an identical pair, get false.
C8_TrueIffOnlyDigitFormDiffers ==
    n_pc = "returned" =>
      /\ n_res = DigitFormatOnly(n_a, n_b)
      /\ (n_a = Str(<<"FA", "F1">>) /\ n_b = Str(<<"A", "F1">>)) => ~n_res
      /\ (n_a = Str(<<"FA">>) /\ n_b = Str(<<"A">>)) => ~n_res
      /\ n_a = n_b => ~n_res

C8_Witness ==
    /\ n_pc = "returned"
    /\ n_a = Str(<<"F1", "A">>) /\ n_b = Str(<<"1", "A">>)
    /\ n_res = TRUE

\* a second case of C8's detector at work: an identical pair with a full-width digit
C8_WitnessIdentical ==
    /\ n_pc = "returned"
    /\ n_a = Str(<<"F1", "F2">>) /\ n_b = n_a
    /\ n_res = FALSE

Markers ==
    {<<"_", "t", "e", "x", "t">>, <<"_", "n", "a", "m", "e">>, <<"_", "d", "e", "s", "c">>, <<"_", "t", "i", "t", "l", "e">>,
     <<"t", "e", "x", "t", "_">>, <<"n", "a", "m", "e", "_">>, <<"d", "e", "s", "c", "_">>, <<"t", "i", "t", "l", "e", "_">>}

SameLetter(c, d) ==
    \/ c = d
    \/ \E u \in DOMAIN LowerOf : {c, d} = {u, LowerOf[u]}

\* the marker occurs in the key at some position, letter case ignored
HasMarker(key) ==
    \E m \in Markers : \E i \in 0..(Len(key) - Len(m)) :
        \A j \in 1..Len(m) : SameLetter(key[i + j], m[j])

\* C9: the heuristic answers true exactly for a string value whose key holds a
\* marker, letter case ignored, or which is longer than 50 characters; so a
\* marker wins over an all-digit value, and an all-digit string, a short
\* identifier and a string of exactly 50 characters under a plain key get false.
C9_TrueIffStringWithMarkerOrLong ==
    f_pc = "returned" =>
      /\ f_res = (f_val.t = "str" /\ (HasMarker(f_key) \/ Len(f_val.s) > 50))
      /\ (f_key = <<"i", "t", "e", "m", "_", "n", "a", "m", "e">> /\ f_val = Str(<<"4", "2">>)) => f_res
      /\ (f_key = <<"c", "o", "u", "n", "t">> /\ f_val = Str(<<"4", "2">>)) => ~f_res
      /\ (f_key = <<"i", "d">> /\ f_val = Str(<<"a", "b", "-", "1">>)) => ~f_res
      /\ (f_key = <<"i", "d">> /\ f_val.t = "str" /\ Len(f_val.s) = 50) => ~f_res
      /\ (f_key = <<"i", "d">> /\ f_val.t = "str" /\ Len(f_val.s) = 51) => f_res
      /\ f_val.t # "str" => ~f_res

\* the marker is found in a key written in another letter case, over an
\* all-digit value
C9_Witness ==
    /\ f_pc = "returned"
    /\ f_key = <<"I", "t", "e", "m", "_", "N", "a", "m", "e">>
    /\ f_val = Str(<<"4", "2">>)
    /\ f_res = TRUE

\* a second case of C9: a long value under a key without a marker
C9_WitnessLong ==
    /\ f_pc = "returned"
    /\ f_key = <<"c", "o", "u", "n", "t">>
    /\ f_val.t = "str" /\ Len(f_val.s) = 51
    /\ f_res = TRUE

\* the fold of the replacements of the first n entries of a table, each
\* applied to the result of the one before
RECURSIVE FoldLeft(_, _, _)
FoldLeft(terms, s, n) ==
    IF n = 0 THEN s ELSE StrReplace(FoldLeft(terms, s, n - 1), terms[n][1], terms[n][2])

Reverse(q) == [i \in 1..Len(q) |-> q[Len(q) + 1 - i]]

ExampleTerms == << << <<"A", "B">>, <<"X">> >>, << <<"A">>, <<"Y">> >> >>

\* C10: after k iterations the local out is the left-to-right fold of the first
\* k table entries over the argument, and the returned text is the fold of the
\* whole table; with the table [("AB","X"), ("A","Y")] the text "AB" gives "X",
\* and the same table reversed gives "YB".
C10_FoldInTableOrder ==
    /\ t_k >= 1 => t_out = FoldLeft(KOR_CN_TERMS, t_in, t_k - 1)
    /\ t_k = Len(KOR_CN_TERMS) + 1 => t_out = kor_min_translate(t_in)
    /\ TermLoop(ExampleTerms, <<"A", "B">>, <<"A", "B">>, 1) = <<"X">>
    /\ TermLoop(Reverse(ExampleTerms), <<"A", "B">>, <<"A", "B">>, 1) = <<"Y", "B">>

\* the whole table was applied to a text in which an earlier, shorter term
\* matched inside a later, longer one: the earlier entry was applied first
C10_Witness ==
    /\ t_k = Len(KOR_CN_TERMS) + 1
    /\ t_in = <<"teuk", "su", "gong", "gyeok">>
    /\ t_out = <<"teuk", "su", "zGong", "zJi">>
    /\ FoldLeft(Reverse(KOR_CN_TERMS), t_in, Len(KOR_CN_TERMS)) = <<"zTe", "zGong">>

C11_WitnessSi ==
    /\ h_fn = "replace_texts_by_trad" /\ h_pc = "returned"
    /\ Len(h_dst) = 1 /\ Len(h_src) = 1
    /\ heap[h_out[1]].str # heap[h_dst[1]].str

\* C12: no batch loop is left by an exception, and a loop that ends has dealt
\* with every file of the batch, in order, the failing ones as skipped or failed.
C12_FailureNeverStopsBatch ==
    /\ b_pc # "crashed"
    /\ b_pc = "done" => Len(b_log) = Len(b_files)

\* what does hold: the loops of generate_si.verify_and_report,
\* analyze_json_differences.main and format_json.main always reach their end,
\* generate_si's two generators do so unless a write fails, and
\* bdsp_translate's two loops only when nothing fails
C12_WhichLoopsSurvive ==
    b_pc = "crashed" =>
        LET f == b_files[b_i]
        IN \/ /\ b_prog \in {"bdsp_translate.process_common",
                               "bdsp_translate.process_korean_export"}
              /\ "fail" \in {f.load, f.donor, f.save}
           \/ /\ b_prog \in {"generate_si.process_common",
                               "generate_si.process_korean_export"}
              /\ f.load = "ok" /\ f.save = "fail"

\* C13: in process_korean_export, when the trad_chinese_* file exists but
\* yields an empty label index and the korean file has a label array, the
\* file is not copied through: every label goes through the term fallback.
C13_EmptyIndexFallsBack ==
    (/\ kx_pc = "saved"
     /\ kx_trad.exists
     /\ build_label_map_from_msbt(kx_trad) = EmptyMap
     /\ kx_ko_list)
    => /\ kx_summary.copied_untranslated_struct = 0
       /\ kx_idx = kx_len
       /\ kx_idx > 0 =>
            IF kx_in.hasWords
            THEN kx_out.hasWords /\ Strs(kx_out.words) = TermStrs(kx_in.words)
            ELSE kx_out = kx_in

\* the label counters of process_korean_export
KxLabelCounters(c) == <<c.labels_aligned, c.labels_fallback_translated>>

\* C18: in process_korean_export a label whose texts come out as they went in
\* moves no label counter, and no label counter exceeds the number of labels
\* processed.
C18_CountsOnlyChangedLabels ==
    /\ (/\ kx_pc \in {"aligned", "fallback"}
        /\ kx_idx > 0
        /\ kx_in.hasWords = kx_out.hasWords
        /\ Strs(kx_in.words) = Strs(kx_out.words))
       => KxLabelCounters(kx_summary) = KxLabelCounters(kx_prev)
    /\ kx_summary.labels_aligned <= kx_idx
    /\ kx_summary.labels_fallback_translated <= kx_idx

\* C14: for a document whose labelDataArray is missing or is anything but a
\* list, build_label_map_from_msbt returns the empty map, raises nothing, and
\* leaves the document as it was.
C14_NoLabelArrayGivesEmptyMap ==
    (x_pc = "returned" /\ x_kind # "list") =>
        /\ x_map = EmptyMap
        /\ x_map # Raised
        /\ x_doc = x_doc0

C14_Witness ==
    /\ x_pc = "returned"
    /\ x_kind = "string"
    /\ x_map = EmptyMap

\* the positions of the labels of the document that carry the name n
IndexNamed(n) == {k \in 1..Len(x_doc.labels) : x_doc.labels[k].labelName = n}

IndexLast(n) == CHOOSE k \in IndexNamed(n) : \A j \in IndexNamed(n) : j <= k

\* C15 as stated: a name that several labels share maps to the word list of
\* the last label of that name in document order.
C15_LastOfAllLabelsWins ==
    x_pc = "returned" =>
        \A n \in Names : Cardinality(IndexNamed(n)) >= 2 =>
            /\ x_doc.labels[IndexLast(n)].hasWords
            /\ n \in DOMAIN x_map
            /\ x_map[n] = x_doc.labels[IndexLast(n)].words

\* C15: the returned map has exactly the names of the labels that have a name
\* and a word list, and each name maps to the word list of the last label of
\* that name that has one, however many labels share the name.
C15_LastLabelOfANameWins ==
    x_pc = "returned" =>
        /\ DOMAIN x_map = {n \in Names : Contains(x_doc, n)}
        /\ \A n \in DOMAIN x_map : x_map[n] = LastNamed(x_doc, n)

\* three labels share a name; the map holds the third one's word list
C15_Witness ==
    /\ x_pc = "returned"
    /\ Len(x_doc.labels) = 3
    /\ \A k \in 1..3 : x_doc.labels[k].labelName = "A" /\ x_doc.labels[k].hasWords
    /\ x_map["A"] = x_doc.labels[3].words
    /\ x_map["A"] # x_doc.labels[1].words

\* the two values of a leaf pair diverge in type: a mapping or sequence paired
\* with a scalar, a mapping with a sequence, a number with a string
TypeDivergent(f) == f.a.t # f.b.t

\* C16 as stated: a type-divergent pair increments no bucket and not the
\* total, whatever the path is.
C16_TypeDivergentAlwaysSkipped ==
    (d_leaf # NoFrame /\ TypeDivergent(d_leaf)) => differences = d_prev

\* C16: a type-divergent pair increments no bucket and not the total, except
\* at a path that ends with strWidth, where it is counted in strWidth and in
\* the total.
C16_TypeDivergentSkippedUnlessWidth ==
    (d_leaf # NoFrame /\ TypeDivergent(d_leaf)) =>
        differences = IF EndsWith(d_leaf.path, K_strWidth)
                      THEN Plus1(d_prev, "strWidth")
                      ELSE d_prev

\* a number paired with a string under the key id has been visited and skipped
C16_Witness ==
    /\ d_leaf # NoFrame
    /\ d_leaf.a.t = "num" /\ d_leaf.b.t = "str"
    /\ d_leaf.path = K_id
    /\ differences = d_prev

\* a sequence paired with a scalar has been visited and skipped
C16_WitnessSequence ==
    /\ d_pc = "returned"
    /\ d_leaf # NoFrame
    /\ d_leaf.a.t = "list" /\ d_leaf.b.t = "num"
    /\ differences = ZeroCounts

\* the keys the two compared documents share under which the values diverge in type
DivergentKeys == {k \in Range(p_a.ks) \cap Range(p_b.ks) : Get(p_a, k).t # Get(p_b, k).t}

\* C17: for every key common to both documents whose two values diverge in
\* type, the returned list has a line for that key, whatever the key name and
\* whatever the length of a string side.
C17_TypeDivergenceAlwaysReported ==
    p_pc = "returned" =>
        \A k \in DivergentKeys : \E j \in 1..Len(p_lines) : p_lines[j].key = k

\* what the code does: the line is there unless a string side is a likely text field
C17_ReportedUnlessLikelyText ==
    p_pc = "returned" =>
        \A k \in DivergentKeys :
            (\E j \in 1..Len(p_lines) : p_lines[j].key = k /\ p_lines[j].kind = "value")
              <=> (~is_likely_text_field(k, Get(p_a, k)) /\ ~is_likely_text_field(k, Get(p_b, k)))

\* C19: for every English template and every Traditional Chinese sibling (or
\* none), the report of verify_common_against_english on the output of
\* replace_texts_by_trad has equal top-level keys, equal label counts, equal
\* label names position by position and equal word list lengths.
C19_OutputPassesStructureCheck ==
    v_pc = "verified" =>
        /\ v_report.top_keys_equal
        /\ v_report.label_count_equal
        /\ v_report.label_names_equal
        /\ v_report.word_arrays_len_equal

\* what the code does: the labels always pass; the top-level keys pass exactly
\* when the template has an m_Name
C19_PassesIffTemplateHasName ==
    v_pc = "verified" =>
        /\ v_report.label_count_equal
        /\ v_report.label_names_equal
        /\ v_report.word_arrays_len_equal
        /\ v_report.top_keys_equal <=> v_en.hasName

\* x without what y has no counterpart for: the keys of a mapping that y's
\* mapping lacks, the elements of a list beyond the length of y's list
RECURSIVE Common(_, _)
RECURSIVE CommonDict(_, _, _)
CommonDict(x, y, i) ==
    IF i > Len(x.ks) THEN Dict(<<>>, <<>>)
    ELSE LET rest == CommonDict(x, y, i + 1)
         IN IF \E h \in 1..Len(y.ks) : y.ks[h] = x.ks[i]
            THEN Dict(<<x.ks[i]>> \o rest.ks, <<Common(x.vs[i], Get(y, x.ks[i]))>> \o rest.vs)
            ELSE rest

Common(x, y) ==
    IF x.t = "dict" /\ y.t = "dict" THEN CommonDict(x, y, 1)
    ELSE IF x.t = "list" /\ y.t = "list"
         THEN List([i \in 1..(IF Len(x.vs) < Len(y.vs) THEN Len(x.vs) ELSE Len(y.vs)) |->
                       Common(x.vs[i], y.vs[i])])
         ELSE x

\* C20: the counts returned for (A, B) are the counts for (B, A); for A = B
\* they are all zero; and they are the counts of the two documents cut down to
\* the keys both have and to the shorter length of each pair of lists.
C20_SymmetricAndZeroOnIdentical ==
    d_pc = "returned" =>
        /\ differences = analyze_differences(d_a, d_b)
        /\ differences = analyze_differences(d_b, d_a)
        /\ d_a = d_b => differences = ZeroCounts
        /\ differences = analyze_differences(Common(d_a, d_b), Common(d_b, d_a))

\* a full-width string against its half-width form, with a key only one side has
C20_Witness ==
    /\ d_pc = "returned"
    /\ d_a.t = "dict" /\ d_b.t = "dict"
    /\ Len(d_a.ks) = 2 /\ Len(d_b.ks) = 1
    /\ differences.numeric_format = 1 /\ differences.total = 1

\* two lists of different length that differ in the first element
C20_WitnessLists ==
    /\ d_pc = "returned"
    /\ d_a.t = "list" /\ d_b.t = "list"
    /\ Len(d_a.vs) = 1 /\ Len(d_b.vs) = 2
    /\ differences.total = 1

\* a document against itself
C20_WitnessIdentical ==
    /\ d_pc = "returned"
    /\ d_a = d_b
    /\ d_a.t = "dict" /\ Len(d_a.ks) = 2
    /\ differences = ZeroCounts

====
